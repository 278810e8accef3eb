--------------------------- MODULE IngestionProofs ---------------------------
(***************************************************************************)
(* Proofs about Ingestion: for any bytes at all, no position leaves its    *)
(* slice, every loop ends, and the name of a DNS message is the one that   *)
(* stands there; and the packets of a capture are those that were written  *)
(* whole.                                                                  *)
(*                                                                         *)
(* Names and records are held against functions that are defined by        *)
(* recursion.  The prover knows such a function only as a CHOOSE, so each  *)
(* comes with a lemma that its equation has a solution, by induction on    *)
(* the naturals that a function covers.                                    *)
(***************************************************************************)
EXTENDS Ingestion, TLAPS, WellFoundedInduction, SequenceTheorems

\* What is under way, beyond the types.
Underway ==
    /\ at # "idle" => reading = "read" /\ next <= Len(raw)
    /\ at \in {"name", "item"} => questions + answers > 0

IInv == TypeOK /\ Underway

-----------------------------------------------------------------------------
(***************************************************************************)
(* Slices                                                                  *)
(***************************************************************************)

(* A byte that lies in a buffer is a byte. *)
LEMMA ByteAt ==
    ASSUME NEW buf \in Buffer, NEW i \in Nat, i < Len(buf)
    PROVE  At(buf, i) \in Byte
<1>1. i + 1 \in 1 .. Len(buf)
  BY DEF Buffer
<1>2. QED
  BY <1>1 DEF At, Buffer

(* What is computed from bytes. *)
LEMMA ByteArithmetic ==
    ASSUME NEW a \in Byte, NEW b \in Byte
    PROVE  /\ 256 * a + b \in Nat
           /\ 256 * (a % 64) + b \in Nat
           /\ 4 * (a \div 16) \in Nat
           /\ 4 * (a % 16) \in Nat
BY DEF Byte

(* A byte is a natural number. *)
LEMMA ByteIsNatural ==
    ASSUME NEW b \in Byte
    PROVE  b \in Nat
BY DEF Byte

(* Two bytes make a number. *)
LEMMA WordAt ==
    ASSUME NEW buf \in Buffer, NEW i \in Nat, i + 1 < Len(buf)
    PROVE  U16(buf, i) \in Nat
<1>1. i + 1 \in 1 .. Len(buf) /\ i + 2 \in 1 .. Len(buf)
  BY DEF Buffer
<1>2. buf[i + 1] \in Byte /\ buf[i + 2] \in Byte
  BY <1>1 DEF Buffer
<1>3. QED
  BY <1>2, ByteArithmetic DEF U16

(* A slice within the bounds of a buffer is a buffer of the length asked for. *)
LEMMA SliceInside ==
    ASSUME NEW buf \in Buffer, NEW from \in Nat, NEW to \in Nat,
           Inside(buf, from, to)
    PROVE  Slice(buf, from, to) \in Buffer /\ Len(Slice(buf, from, to)) = to - from
<1>1. Len(buf) \in Nat /\ from <= to /\ to <= Len(buf)
  BY DEF Inside, Buffer
<1>2. SubSeq(buf, from + 1, to) = [k \in 1 .. to - from |-> buf[k + from]]
  BY <1>1 DEF Buffer
<1>3. \A k \in 1 .. to - from : k + from \in 1 .. Len(buf)
  BY <1>1
<1>4. \A k \in 1 .. to - from : buf[k + from] \in Byte
  BY <1>3 DEF Buffer
<1>5. QED
  BY <1>1, <1>2, <1>4 DEF Slice, Buffer

(* What is left of a datagram is at most the packet. *)
LEMMA DatagramBuffer ==
    ASSUME NEW data \in Buffer, NEW link
    PROVE  Datagram(data, link) \in Buffer
<1>1. CASE link # LINKTYPE_RAW /\ link = LINKTYPE_ETHERNET /\ FrameHoldsIp(data)
  <2>1. IpOffset(data) \in Nat /\ IpOffset(data) <= Len(data) /\ Len(data) \in Nat
    BY <1>1 DEF IpOffset, FrameHoldsIp, Buffer
  <2>2. Slice(data, IpOffset(data), Len(data)) \in Buffer
    BY <2>1, SliceInside DEF Inside
  <2>3. QED
    BY <1>1, <2>2 DEF Datagram
<1>2. CASE ~(link # LINKTYPE_RAW /\ link = LINKTYPE_ETHERNET /\ FrameHoldsIp(data))
  BY <1>2 DEF Datagram, Buffer
<1>3. QED
  BY <1>1, <1>2

(* The transport segment lies in the packet. *)
LEMMA IpInside ==
    ASSUME NEW ip \in Buffer, IpAccepted(ip)
    PROVE  /\ HeaderLength(ip) \in Nat
           /\ IpEnd(ip) \in Nat
           /\ Inside(ip, HeaderLength(ip), IpEnd(ip))
<1>1. At(ip, 0) \in Byte /\ Len(ip) \in Nat
  BY ByteAt DEF IpAccepted, Buffer
<1>2. Len(ip) >= 20 /\ HeaderLength(ip) \in 20 .. Len(ip)
  <2>1. 4 * (At(ip, 0) % 16) \in Nat
    BY <1>1, ByteArithmetic
  <2>2. QED
    BY <1>1, <2>1 DEF IpAccepted, HeaderLength
<1>3. U16(ip, 2) \in Nat /\ U16(ip, 4) \in Nat
  BY <1>1, <1>2, WordAt
<1>4. QED
  BY <1>1, <1>2, <1>3 DEF IpEnd, Clamp, AtMostOf, Inside

(* The payload lies in the segment. *)
LEMMA L4Inside ==
    ASSUME NEW data \in Buffer, NEW protocol, L4Accepted(protocol, data)
    PROVE  /\ L4Length(protocol, data) \in Nat
           /\ Inside(data, L4Length(protocol, data), Len(data))
<1>1. Len(data) \in Nat
  BY DEF Buffer
<1>2. CASE protocol = TCP
  <2>1. At(data, 12) \in Byte
    BY <1>1, <1>2, ByteAt DEF L4Accepted
  <2>2. QED
    BY <1>1, <1>2, <2>1, ByteArithmetic DEF L4Accepted, L4Length, Inside
<1>3. CASE protocol # TCP
  BY <1>1, <1>3 DEF L4Accepted, L4Length, Inside, UDP, TCP
<1>4. QED
  BY <1>2, <1>3

(* What the parsers are given is a buffer. *)
LEMMA SegmentPayload ==
    ASSUME NEW data \in Buffer, NEW link, Parses(data, link)
    PROVE  Segment(data, link).payload \in Buffer
<1> DEFINE ip == Datagram(data, link)
           packet == IpPacket(ip)
<1>1. ip \in Buffer /\ IpAccepted(ip) /\ L4Accepted(packet.protocol, packet.data)
  BY DatagramBuffer DEF Parses
<1>2. packet.data = Slice(ip, HeaderLength(ip), IpEnd(ip))
  BY DEF IpPacket
<1>3. packet.data \in Buffer
  BY <1>1, <1>2, IpInside, SliceInside
<1>4. Slice(packet.data, L4Length(packet.protocol, packet.data), Len(packet.data))
        \in Buffer
  BY <1>1, <1>3, L4Inside, SliceInside DEF Buffer
<1>5. QED
  BY <1>4 DEF Segment, L4Info

-----------------------------------------------------------------------------
(***************************************************************************)
(* The order on work                                                       *)
(***************************************************************************)

(* A step of the parsers makes less work by one of the last four numbers. *)
LEMMA ParserShrinks ==
    ASSUME UNCHANGED <<readerVars, next>>,
           \/ Stage' < Stage
           \/ Stage' = Stage /\ Items' < Items
           \/ Stage' = Stage /\ Items' = Items /\ Place' < Place
           \/ Stage' = Stage /\ Items' = Items /\ Place' = Place /\ Turns' < Turns
    PROVE  WorkShrinks
<1>1. /\ Work'[1] = Work[1] /\ Work'[2] = Work[2] /\ Work'[3] = Work[3]
      /\ Work[4] = Stage /\ Work[5] = Items /\ Work[6] = Place /\ Work[7] = Turns
      /\ Work'[4] = Stage' /\ Work'[5] = Items' /\ Work'[6] = Place'
      /\ Work'[7] = Turns'
  BY DEF Work, ReaderStage, file, readerVars
<1>2. \E k \in 4 .. 7 : Work'[k] < Work[k]
                        /\ \A j \in 4 .. k - 1 : Work'[j] = Work[j]
  BY <1>1
<1>3. QED
  BY <1>1, <1>2 DEF WorkShrinks

(* What the parsers do not change keeps its type. *)
LEMMA ReaderStays ==
    ASSUME ReaderTypeOK, UNCHANGED <<readerVars, next, segment>>
    PROVE  ReaderTypeOK'
BY DEF ReaderTypeOK, readerVars, file

(* The types after a step that neither is nor gets among extensions. *)
LEMMA TypesOutside ==
    ASSUME TypeOK, ReaderTypeOK', message' = message,
           at' \in Steps \ {"extensions", "names"},
           pos' \in 0 .. Len(message), cursor' \in Nat, jumped' \in BOOLEAN,
           end_pos' \in Nat, hops' \in 0 .. MAX_HOPS,
           at' \in {"asked", "name"} => end_pos' <= Len(message),
           questions' \in Nat, answers' \in Nat, extensions_end' \in Nat
    PROVE  TypeOK'
BY DEF TypeOK, InName

-----------------------------------------------------------------------------
(***************************************************************************)
(* The steps of the parsers.  Each lemma says that a step keeps the        *)
(* invariant and makes less work.                                          *)
(***************************************************************************)

LEMMA ReadQueryStep ==
    ASSUME IInv, ReadQuery, UNCHANGED <<readerVars, next, segment>>
    PROVE  IInv' /\ WorkShrinks
<1>1. ReaderTypeOK'
  BY ReaderStays DEF IInv, TypeOK
<1>2. CASE Len(message) < 12 \/ U16(message, 4) = 0
  <2>1. TypeOK'
    BY <1>1, <1>2 DEF IInv, TypeOK, ReadQuery, InName, Steps, nameVars, foundVars
  <2>2. Stage' < Stage
    BY <1>2 DEF ReadQuery, Stage
  <2>3. QED
    BY <2>1, <2>2, ParserShrinks DEF IInv, Underway, ReadQuery, readerVars
<1>3. CASE ~(Len(message) < 12 \/ U16(message, 4) = 0)
  <2>1. Len(message) \in Nat /\ Len(message) >= 12
    BY <1>3 DEF IInv, TypeOK, Buffer
  <2>. /\ at' = "asked" /\ cursor' = 12 /\ end_pos' = 12 /\ hops' = 0
       /\ jumped' = FALSE
       /\ UNCHANGED <<message, pos, questions, answers, extensions_end>>
    BY <1>3 DEF ReadQuery, StartName
  <2>2. TypeOK'
    <3>1. /\ pos \in 0 .. Len(message) /\ questions \in Nat /\ answers \in Nat
          /\ extensions_end \in Nat /\ TypeOK
      BY DEF IInv, TypeOK
    <3>2. hops' \in 0 .. MAX_HOPS /\ at' \in Steps \ {"extensions", "names"}
      BY HopsAssumption DEF Steps
    <3>3. QED
      BY <1>1, <2>1, <3>1, <3>2, TypesOutside
  <2>3. Stage' < Stage
    BY <1>3 DEF ReadQuery, Stage
  <2>4. QED
    BY <1>3, <2>2, <2>3, ParserShrinks DEF IInv, Underway, ReadQuery, readerVars
<1>4. QED
  BY <1>2, <1>3

LEMMA JumpStep ==
    ASSUME IInv, Jump, UNCHANGED <<readerVars, next, segment>>
    PROVE  IInv' /\ WorkShrinks
<1>1. ReaderTypeOK'
  BY ReaderStays DEF IInv, TypeOK
<1>2. Len(message) \in Nat /\ Octet \in Byte /\ At(message, cursor + 1) \in Byte
  BY ByteAt DEF IInv, TypeOK, Jump, TakesTurn, Octet, Buffer
<1>3. cursor' \in Nat
  BY <1>2, ByteArithmetic DEF Jump
<1>4. TypeOK'
  BY <1>1, <1>2, <1>3, HopsAssumption
  DEF IInv, TypeOK, Jump, TakesTurn, InName, Steps, foundVars
<1>5. Stage' = Stage /\ Items' = Items /\ Place' = Place /\ Turns' < Turns
  BY HopsAssumption
  DEF IInv, TypeOK, Jump, TakesTurn, InName, Stage, Items, Place, Turns
<1>6. QED
  BY <1>4, <1>5, ParserShrinks DEF IInv, Underway, Jump, readerVars

LEMMA ReadHeaderStep ==
    ASSUME IInv, ReadHeader, UNCHANGED <<readerVars, next, segment>>
    PROVE  IInv' /\ WorkShrinks
<1>1. ReaderTypeOK' /\ TypeOK /\ message \in Buffer /\ Len(message) \in Nat
  BY ReaderStays DEF IInv, TypeOK, Buffer
<1>2. CASE Len(message) < 12
  <2>1. TypeOK' /\ Stage' < Stage
    BY <1>1, <1>2, TypesOutside DEF TypeOK, ReadHeader, Steps, Stage, nameVars
  <2>2. QED
    BY <1>2, <2>1, ParserShrinks DEF IInv, Underway, ReadHeader, readerVars
<1>3. CASE Len(message) >= 12
  <2>1. U16(message, 4) \in Nat /\ U16(message, 6) \in Nat
    BY <1>1, <1>3, WordAt
  <2>2. TypeOK' /\ Stage' < Stage
    BY <1>1, <1>3, <2>1, TypesOutside DEF TypeOK, ReadHeader, Steps, Stage, nameVars
  <2>3. QED
    BY <1>1, <1>3, <2>2, ParserShrinks DEF IInv, Underway, ReadHeader, readerVars
<1>4. QED
  BY <1>1, <1>2, <1>3

LEMMA NextItemStep ==
    ASSUME IInv, NextItem, UNCHANGED <<readerVars, next, segment>>
    PROVE  IInv' /\ WorkShrinks
<1>1. ReaderTypeOK' /\ TypeOK /\ message \in Buffer /\ Len(message) \in Nat
  BY ReaderStays DEF IInv, TypeOK, Buffer
<1>2. CASE questions + answers = 0
  <2>1. TypeOK' /\ Stage' < Stage
    BY <1>1, <1>2, TypesOutside DEF TypeOK, NextItem, Steps, Stage, nameVars
  <2>2. QED
    BY <1>2, <2>1, ParserShrinks DEF IInv, Underway, NextItem, readerVars
<1>3. CASE questions + answers # 0
  <2>1. 0 \in 0 .. MAX_HOPS
    BY HopsAssumption
  <2>2. TypeOK'
    <3>1. /\ pos \in 0 .. Len(message) /\ questions \in Nat /\ answers \in Nat
          /\ extensions_end \in Nat
      BY <1>1 DEF TypeOK
    <3>2. /\ at' = "name" /\ cursor' = pos /\ end_pos' = pos /\ hops' = 0
          /\ jumped' = FALSE
          /\ UNCHANGED <<message, pos, questions, answers, extensions_end>>
      BY <1>3 DEF NextItem, StartName
    <3>3. /\ at' \in Steps \ {"extensions", "names"}
          /\ pos' \in 0 .. Len(message) /\ cursor' \in Nat /\ end_pos' \in Nat
          /\ end_pos' <= Len(message) /\ hops' \in 0 .. MAX_HOPS
      BY <1>1, <2>1, <3>1, <3>2 DEF Steps
    <3>4. QED
      BY <1>1, <3>1, <3>2, <3>3, TypesOutside
  <2>3. Stage' = Stage /\ Items' = Items /\ Place' < Place
    BY <1>3 DEF NextItem, Stage, Items, Place
  <2>4. questions + answers > 0
    <3>1. questions \in Nat /\ answers \in Nat
      BY <1>1 DEF TypeOK
    <3>2. QED
      BY <1>3, <3>1
  <2>5. QED
    BY <1>3, <2>2, <2>3, <2>4, ParserShrinks
    DEF IInv, Underway, NextItem, readerVars
<1>4. QED
  BY <1>2, <1>3

LEMMA NameFailsStep ==
    ASSUME IInv, NameFails, UNCHANGED <<readerVars, next, segment>>
    PROVE  IInv' /\ WorkShrinks
<1>1. ReaderTypeOK' /\ TypeOK
  BY ReaderStays DEF IInv, TypeOK
<1>2. TypeOK' /\ Stage' < Stage
  BY <1>1, TypesOutside DEF TypeOK, NameFails, InName, Steps, Stage, nameVars
<1>3. QED
  BY <1>2, ParserShrinks DEF IInv, Underway, NameFails, InName, readerVars

LEMMA NameEndsStep ==
    ASSUME IInv, NameEnds, UNCHANGED <<readerVars, next, segment>>
    PROVE  IInv' /\ WorkShrinks
<1>1. /\ ReaderTypeOK' /\ TypeOK /\ Len(message) \in Nat /\ MAX_HOPS \in Nat
      /\ end_pos' \in 0 .. Len(message) /\ hops' \in 0 .. MAX_HOPS
  BY ReaderStays, HopsAssumption
  DEF IInv, TypeOK, Buffer, NameEnds, TakesTurn, InName
<1>2. CASE at = "asked"
  <2>1. TypeOK' /\ Stage' < Stage
    BY <1>1, <1>2, TypesOutside DEF TypeOK, NameEnds, Steps, Stage
  <2>2. QED
    BY <1>2, <2>1, ParserShrinks
    DEF IInv, Underway, NameEnds, readerVars
<1>3. CASE at = "name"
  <2>1. TypeOK'
    BY <1>1, <1>3, TypesOutside DEF TypeOK, NameEnds, Steps
  <2>2. Stage' = Stage /\ Items' = Items /\ Place' < Place
    BY <1>3 DEF NameEnds, Stage, Items, Place
  <2>3. QED
    BY <1>3, <2>1, <2>2, ParserShrinks
    DEF IInv, Underway, NameEnds, readerVars
<1>4. QED
  BY <1>2, <1>3 DEF NameEnds, TakesTurn, InName

LEMMA LabelStep ==
    ASSUME IInv, Label, UNCHANGED <<readerVars, next, segment>>
    PROVE  IInv' /\ WorkShrinks
<1>1. /\ ReaderTypeOK' /\ TypeOK /\ Len(message) \in Nat /\ Octet \in Nat
      /\ MAX_HOPS \in Nat /\ hops' \in 0 .. MAX_HOPS /\ hops \in 0 .. MAX_HOPS
  BY ReaderStays, HopsAssumption
  DEF IInv, TypeOK, Buffer, Label, TakesTurn, InName
<1>2. TypeOK'
  BY <1>1, TypesOutside DEF TypeOK, Label, TakesTurn, InName, Steps
<1>3. Stage' = Stage /\ Items' = Items /\ Place' = Place /\ Turns' < Turns
  BY <1>1 DEF Label, TakesTurn, InName, Stage, Items, Place, Turns
<1>4. QED
  BY <1>2, <1>3, ParserShrinks DEF IInv, Underway, Label, readerVars

LEMMA ItemFailsStep ==
    ASSUME IInv, ItemFails, UNCHANGED <<readerVars, next, segment>>
    PROVE  IInv' /\ WorkShrinks
<1>1. ReaderTypeOK' /\ TypeOK
  BY ReaderStays DEF IInv, TypeOK
<1>2. TypeOK' /\ Stage' < Stage
  BY <1>1, TypesOutside DEF TypeOK, ItemFails, Steps, Stage, nameVars
<1>3. QED
  BY <1>2, ParserShrinks DEF IInv, Underway, ItemFails, readerVars

LEMMA ReadQuestionStep ==
    ASSUME IInv, ReadQuestion, UNCHANGED <<readerVars, next, segment>>
    PROVE  IInv' /\ WorkShrinks
<1>1. /\ ReaderTypeOK' /\ TypeOK /\ Len(message) \in Nat
      /\ questions \in Nat /\ answers \in Nat /\ pos' \in 0 .. Len(message)
  BY ReaderStays DEF IInv, TypeOK, Buffer, ReadQuestion, ItemIsWhole, FixedPart
<1>2. TypeOK'
  BY <1>1, TypesOutside DEF TypeOK, ReadQuestion, Steps, nameVars
<1>3. Stage' = Stage /\ Items' < Items
  BY <1>1 DEF ReadQuestion, Stage, Items
<1>4. QED
  BY <1>2, <1>3, ParserShrinks DEF IInv, Underway, ReadQuestion, readerVars

(* The data of an answer lie in the message. *)
LEMMA AnswerInside ==
    ASSUME TypeOK, at = "item", ItemIsWhole, questions = 0
    PROVE  /\ RdLength \in Nat
           /\ Inside(message, pos + 10, pos + 10 + RdLength)
<1>1. Len(message) \in Nat /\ message \in Buffer /\ pos \in Nat
  BY DEF TypeOK, Buffer
<1>2. pos + 10 <= Len(message)
  BY DEF ItemIsWhole, FixedPart
<1>3. RdLength \in Nat
  BY <1>1, <1>2, WordAt DEF RdLength
<1>4. QED
  BY <1>1, <1>3 DEF ItemIsWhole, Inside

LEMMA ReadAnswerStep ==
    ASSUME IInv, ReadAnswer, UNCHANGED <<readerVars, next, segment>>
    PROVE  IInv' /\ WorkShrinks
<1>1. /\ ReaderTypeOK' /\ TypeOK /\ Len(message) \in Nat /\ pos \in Nat
      /\ questions \in Nat /\ answers \in Nat /\ questions + answers > 0
  BY ReaderStays DEF IInv, TypeOK, Buffer, Underway, ReadAnswer
<1>2. pos' \in 0 .. Len(message)
  BY <1>1, AnswerInside DEF ReadAnswer, Inside
<1>3. TypeOK'
  BY <1>1, <1>2, TypesOutside DEF TypeOK, ReadAnswer, Steps, nameVars
<1>4. Stage' = Stage /\ Items' < Items
  BY <1>1 DEF ReadAnswer, Stage, Items
<1>5. QED
  BY <1>3, <1>4, ParserShrinks DEF IInv, Underway, ReadAnswer, readerVars

(* The record of a ClientHello lies in the payload, and its extensions in it. *)
LEMMA HelloInside ==
    ASSUME message \in Buffer, IsHello
    PROVE  /\ Inside(message, 5, AtMostOf(5 + U16(message, 3), Len(message)))
           /\ Record \in Buffer
           /\ MethodsEnd(Record) \in Nat
           /\ MethodsEnd(Record) + 1 < Len(Record)
<1>1. Len(message) \in Nat /\ Len(message) >= 5
  BY DEF Buffer, IsHello
<1>2. U16(message, 3) \in Nat
  BY <1>1, WordAt
<1>3. /\ AtMostOf(5 + U16(message, 3), Len(message)) \in Nat
      /\ Inside(message, 5, AtMostOf(5 + U16(message, 3), Len(message)))
  BY <1>1, <1>2 DEF AtMostOf, Inside
<1>4. Record \in Buffer
  BY <1>3, SliceInside DEF Record
<1>5. Len(Record) \in Nat /\ ReachesExtensions(Record)
  BY <1>4 DEF IsHello, Buffer
<1>6. /\ 38 < Len(Record)
      /\ SessionEnd(Record) + 1 < Len(Record)
      /\ CiphersEnd(Record) < Len(Record)
      /\ MethodsEnd(Record) + 1 < Len(Record)
  BY <1>5 DEF ReachesExtensions
<1>7. SessionEnd(Record) \in Nat
  <2>1. At(Record, 38) \in Nat
    BY <1>4, <1>6, ByteAt, ByteIsNatural
  <2>2. QED
    BY <2>1 DEF SessionEnd
<1>8. CiphersEnd(Record) \in Nat
  <2>1. U16(Record, SessionEnd(Record)) \in Nat
    BY <1>4, <1>6, <1>7, WordAt
  <2>2. QED
    BY <1>7, <2>1 DEF CiphersEnd
<1>9. MethodsEnd(Record) \in Nat
  <2>1. At(Record, CiphersEnd(Record)) \in Nat
    BY <1>4, <1>6, <1>8, ByteAt, ByteIsNatural
  <2>2. QED
    BY <1>8, <2>1 DEF MethodsEnd
<1>10. QED
  BY <1>3, <1>4, <1>6, <1>9

(* An extension lies in the extensions. *)
LEMMA ExtensionInside ==
    ASSUME TypeOK, at \in {"extensions", "names"}, HasExtension
    PROVE  /\ ExtStart \in Nat /\ ExtEnd \in Nat
           /\ pos < ExtStart /\ ExtStart <= ExtEnd
           /\ ExtEnd <= extensions_end /\ extensions_end <= Len(message)
<1>1. /\ Len(message) \in Nat /\ message \in Buffer /\ pos \in Nat
      /\ extensions_end \in Nat /\ extensions_end <= Len(message)
  BY DEF TypeOK, Buffer
<1>2. U16(message, pos + 2) \in Nat
  BY <1>1, WordAt DEF HasExtension
<1>3. QED
  BY <1>1, <1>2 DEF HasExtension, ExtStart, ExtEnd, AtMostOf

(* The list of names, and each name in it, lies in its extension. *)
LEMMA NameInside ==
    ASSUME TypeOK, at = "names"
    PROVE  /\ ListEnd <= ExtEnd - ExtStart
           /\ HasName => /\ NameEnd \in Nat
                         /\ NameStart <= NameEnd /\ NameEnd <= ExtEnd - ExtStart
<1>1. /\ message \in Buffer /\ Len(message) \in Nat /\ pos \in Nat
      /\ HasExtension /\ NamesServers
      /\ cursor \in Nat /\ cursor <= ExtEnd - ExtStart
  BY DEF TypeOK, Buffer
<1>2. /\ ExtStart \in Nat /\ ExtEnd \in Nat /\ ExtStart + 5 <= ExtEnd
      /\ ExtEnd <= Len(message)
  <2>1. /\ ExtStart \in Nat /\ ExtEnd \in Nat /\ ExtEnd <= extensions_end
        /\ extensions_end <= Len(message) /\ extensions_end \in Nat
    BY <1>1, ExtensionInside DEF TypeOK
  <2>2. QED
    BY <1>1, <2>1 DEF NamesServers
<1>3. U16(message, ExtStart) \in Nat
  BY <1>1, <1>2, WordAt
<1>4. ListEnd \in Nat /\ ListEnd <= ExtEnd - ExtStart
  BY <1>2, <1>3 DEF ListEnd, AtMostOf
<1>5. ASSUME HasName
      PROVE  NameEnd \in Nat /\ NameStart <= NameEnd /\ NameEnd <= ExtEnd - ExtStart
  <2>1. NameStart \in Nat /\ cursor + 3 = NameStart /\ NameStart <= ExtEnd - ExtStart
    BY <1>1, <1>2, <1>4, <1>5 DEF HasName, NameStart
  <2>2. U16(message, ExtStart + cursor + 1) \in Nat
    <3>1. /\ ExtStart + cursor + 1 \in Nat
          /\ ExtStart + cursor + 1 + 1 < Len(message)
      BY <1>1, <1>2, <2>1
    <3>2. QED
      BY <1>1, <3>1, WordAt
  <2>3. QED
    BY <1>2, <2>1, <2>2 DEF NameEnd, AtMostOf
<1>6. QED
  BY <1>4, <1>5

LEMMA ReadHelloStep ==
    ASSUME IInv, ReadHello, UNCHANGED <<readerVars, next, segment>>
    PROVE  IInv' /\ WorkShrinks
<1>1. ReaderTypeOK' /\ TypeOK /\ message \in Buffer
  BY ReaderStays DEF IInv, TypeOK
<1>2. /\ Record \in Buffer /\ Len(Record) \in Nat
      /\ MethodsEnd(Record) \in Nat /\ MethodsEnd(Record) + 1 < Len(Record)
  BY <1>1, HelloInside DEF ReadHello, Buffer
<1>3. U16(Record, MethodsEnd(Record) + 2 - 2) \in Nat
  <2>1. MethodsEnd(Record) + 2 - 2 = MethodsEnd(Record)
    BY <1>2
  <2>2. QED
    BY <1>2, <2>1, WordAt
<1> DEFINE first == MethodsEnd(Record) + 2
<1>4. /\ message' = Record /\ pos' = first
      /\ extensions_end' = AtMostOf(first + U16(Record, first - 2), Len(Record))
      /\ at = "hello" /\ at' = "extensions"
      /\ UNCHANGED <<cursor, jumped, end_pos, hops, questions, answers>>
  BY Zenon DEF ReadHello, nameVars
<1>5. /\ pos' \in 0 .. Len(message') /\ extensions_end' \in Nat
      /\ pos' <= extensions_end' /\ extensions_end' <= Len(message')
  BY <1>2, <1>3, <1>4 DEF AtMostOf
<1>6. TypeOK' /\ Stage' < Stage
  BY <1>1, <1>2, <1>4, <1>5 DEF TypeOK, InName, Steps, Stage
<1>7. QED
  BY <1>4, <1>6, ParserShrinks DEF IInv, Underway, readerVars

LEMMA SkipExtensionStep ==
    ASSUME IInv, SkipExtension, UNCHANGED <<readerVars, next, segment>>
    PROVE  IInv' /\ WorkShrinks
<1>1. ReaderTypeOK' /\ TypeOK /\ Len(message) \in Nat /\ pos \in Nat
  BY ReaderStays DEF IInv, TypeOK, Buffer
<1>2. /\ ExtEnd \in Nat /\ pos < ExtEnd
      /\ ExtEnd <= extensions_end /\ extensions_end <= Len(message)
      /\ extensions_end \in Nat
  BY <1>1, ExtensionInside DEF SkipExtension, TypeOK
<1>3. /\ at = "extensions" /\ pos' = ExtEnd
      /\ UNCHANGED <<at, message, cursor, jumped, end_pos, hops, questions, answers,
                     extensions_end>>
  BY DEF SkipExtension, nameVars
<1>4. TypeOK'
  BY <1>1, <1>2, <1>3 DEF TypeOK, InName
<1>5. Stage' = Stage /\ Items' < Items
  BY <1>1, <1>2, <1>3 DEF Stage, Items
<1>6. QED
  BY <1>3, <1>4, <1>5, ParserShrinks DEF IInv, Underway, readerVars

LEMMA EnterListStep ==
    ASSUME IInv, EnterList, UNCHANGED <<readerVars, next, segment>>
    PROVE  IInv' /\ WorkShrinks
<1>1. ReaderTypeOK' /\ TypeOK /\ Len(message) \in Nat
  BY ReaderStays DEF IInv, TypeOK, Buffer
<1>2. /\ at = "extensions" /\ at' = "names" /\ cursor' = 2
      /\ HasExtension /\ NamesServers
      /\ UNCHANGED <<message, pos, jumped, end_pos, hops, questions, answers,
                     extensions_end>>
  BY DEF EnterList
<1>3. HasExtension' /\ NamesServers' /\ ExtEnd' = ExtEnd /\ ExtStart' = ExtStart
  BY <1>2 DEF HasExtension, NamesServers, ExtEnd, ExtStart
<1>4. cursor' <= ExtEnd' - ExtStart'
  BY <1>1, <1>2, <1>3, ExtensionInside DEF NamesServers
<1>5. TypeOK'
  BY <1>1, <1>2, <1>3, <1>4 DEF TypeOK, InName, Steps
<1>6. Stage' = Stage /\ Items' = Items /\ Place' < Place
  BY <1>2 DEF Stage, Items, Place
<1>7. QED
  BY <1>2, <1>5, <1>6, ParserShrinks DEF IInv, Underway, readerVars

LEMMA TakeNameStep ==
    ASSUME IInv, TakeName, UNCHANGED <<readerVars, next, segment>>
    PROVE  IInv' /\ WorkShrinks
<1>1. ReaderTypeOK' /\ TypeOK
  BY ReaderStays DEF IInv, TypeOK
<1>2. TypeOK' /\ Stage' < Stage
  BY <1>1, TypesOutside DEF TypeOK, TakeName, Steps, Stage, nameVars
<1>3. QED
  BY <1>2, ParserShrinks DEF IInv, Underway, TakeName, readerVars

LEMMA SkipNameStep ==
    ASSUME IInv, SkipName, UNCHANGED <<readerVars, next, segment>>
    PROVE  IInv' /\ WorkShrinks
<1>1. /\ ReaderTypeOK' /\ TypeOK /\ Len(message) \in Nat /\ cursor \in Nat
      /\ pos \in Nat
  BY ReaderStays DEF IInv, TypeOK, Buffer
<1>2. /\ at = "names" /\ HasName /\ cursor' = NameEnd
      /\ HasExtension /\ NamesServers
      /\ UNCHANGED <<at, message, pos, jumped, end_pos, hops, questions, answers,
                     extensions_end>>
  BY <1>1 DEF SkipName, TypeOK
<1>3. /\ NameEnd \in Nat /\ cursor < NameEnd /\ NameEnd <= ExtEnd - ExtStart
  BY <1>1, <1>2, NameInside DEF NameStart
<1>4. /\ ExtEnd <= Len(message) /\ ExtStart \in Nat /\ ExtEnd \in Nat
  BY <1>1, <1>2, ExtensionInside DEF TypeOK
<1>5. HasExtension' /\ NamesServers' /\ ExtEnd' = ExtEnd /\ ExtStart' = ExtStart
  BY <1>2 DEF HasExtension, NamesServers, ExtEnd, ExtStart
<1>6. TypeOK'
  BY <1>1, <1>2, <1>3, <1>5 DEF TypeOK, InName
<1>7. Stage' = Stage /\ Items' = Items /\ Place' = Place /\ Turns' < Turns
  BY <1>1, <1>2, <1>3, <1>4 DEF Stage, Items, Place, Turns
<1>8. QED
  BY <1>2, <1>6, <1>7, ParserShrinks DEF IInv, Underway, readerVars

LEMMA LeaveListStep ==
    ASSUME IInv, LeaveList, UNCHANGED <<readerVars, next, segment>>
    PROVE  IInv' /\ WorkShrinks
<1>1. ReaderTypeOK' /\ TypeOK /\ Len(message) \in Nat /\ pos \in Nat
  BY ReaderStays DEF IInv, TypeOK, Buffer
<1>2. /\ at = "names" /\ at' = "extensions" /\ pos' = ExtEnd /\ HasExtension
      /\ UNCHANGED <<message, cursor, jumped, end_pos, hops, questions, answers,
                     extensions_end>>
  BY <1>1 DEF LeaveList, TypeOK, nameVars
<1>3. /\ ExtEnd \in Nat /\ pos < ExtEnd
      /\ ExtEnd <= extensions_end /\ extensions_end <= Len(message)
      /\ extensions_end \in Nat
  BY <1>1, <1>2, ExtensionInside DEF TypeOK
<1>4. TypeOK'
  BY <1>1, <1>2, <1>3 DEF TypeOK, InName, Steps
<1>5. Stage' = Stage /\ Items' < Items
  BY <1>1, <1>2, <1>3 DEF Stage, Items
<1>6. QED
  BY <1>2, <1>4, <1>5, ParserShrinks DEF IInv, Underway, readerVars

LEMMA TryHttpStep ==
    ASSUME IInv, TryHttp(segment.payload), UNCHANGED <<readerVars, next, segment>>
    PROVE  IInv' /\ WorkShrinks
<1>1. ReaderTypeOK' /\ TypeOK
  BY ReaderStays DEF IInv, TypeOK
<1>2. TypeOK' /\ Stage' < Stage
  BY <1>1, TypesOutside DEF TypeOK, TryHttp, Steps, Stage, nameVars
<1>3. QED
  BY <1>2, ParserShrinks DEF IInv, Underway, TryHttp, readerVars

-----------------------------------------------------------------------------
(***************************************************************************)
(* The steps of the reader, and those from packet to packet                *)
(***************************************************************************)

(* Four bytes make a number. *)
LEMMA U32Natural ==
    ASSUME NEW word, word[1] \in Byte, word[2] \in Byte, word[3] \in Byte,
           word[4] \in Byte
    PROVE  U32(word) \in Nat
<1>1. word[1] \in Nat /\ word[2] \in Nat /\ word[3] \in Nat /\ word[4] \in Nat
  BY ByteIsNatural
<1>2. QED
  BY <1>1 DEF U32

(* A u32 of the file, in either byte order. *)
LEMMA DoubleWordAt ==
    ASSUME NEW buf \in Buffer, NEW i \in Nat, i + 3 < Len(buf)
    PROVE  U32(BigEndian(buf, i)) \in Nat /\ U32(LittleEndian(buf, i)) \in Nat
<1>1. /\ i + 1 \in 1 .. Len(buf) /\ i + 2 \in 1 .. Len(buf)
      /\ i + 3 \in 1 .. Len(buf) /\ i + 4 \in 1 .. Len(buf)
  BY DEF Buffer
<1>2. /\ buf[i + 1] \in Byte /\ buf[i + 2] \in Byte
      /\ buf[i + 3] \in Byte /\ buf[i + 4] \in Byte
  BY <1>1 DEF Buffer
<1>3. U32(BigEndian(buf, i)) \in Nat
  BY <1>2, U32Natural DEF BigEndian
<1>4. U32(LittleEndian(buf, i)) \in Nat
  BY <1>2, U32Natural DEF LittleEndian
<1>5. QED
  BY <1>3, <1>4

(* A quotient of natural numbers is one. *)
LEMMA Quotient ==
    ASSUME NEW a \in Nat, NEW b \in Nat, b > 0
    PROVE  a \div b \in Nat
OBVIOUS

(* The record that is read lies in the file, and its time is a number. *)
LEMMA RecordInside ==
    ASSUME ReaderTypeOK, RecordIsWhole
    PROVE  /\ InclLen \in Nat /\ Seconds \in Nat
           /\ Inside(file, offset + 16, offset + 16 + InclLen)
<1>1. file \in Buffer /\ Len(file) \in Nat /\ offset \in Nat
  BY DEF ReaderTypeOK, Buffer
<1>2. offset + 16 <= Len(file)
  BY DEF RecordIsWhole
<1>3. \A i \in {offset, offset + 4, offset + 8} : Ru32(i) \in Nat
  BY <1>1, <1>2, DoubleWordAt DEF Ru32
<1>4. InclLen \in Nat
  BY <1>3 DEF InclLen
<1>5. Seconds \in Nat
  <2> DEFINE sec == Ru32(offset)
             frac == Ru32(offset + 4)
             million == 1000 * 1000
             billion == 1000 * 1000 * 1000
  <2>1. sec \in Nat /\ frac \in Nat /\ frac + HALF_SPACING \in Nat
    BY <1>3 DEF HALF_SPACING
  <2>2. million \in Nat /\ million > 0 /\ billion \in Nat /\ billion > 0
    OBVIOUS
  <2>3. Seconds = IF nano THEN sec + (frac + HALF_SPACING) \div billion
                          ELSE sec + frac \div million
    BY DEF Seconds
  <2> HIDE DEF sec, frac, million, billion
  <2>4. /\ (frac + HALF_SPACING) \div billion \in Nat
        /\ frac \div million \in Nat
    BY <2>1, <2>2, Quotient
  <2>5. QED
    BY <2>1, <2>3, <2>4
<1>6. QED
  BY <1>1, <1>4, <1>5 DEF RecordIsWhole, Inside

(* The types hold again when the parsers stand still. *)
LEMMA ParserStays ==
    ASSUME TypeOK, ReaderTypeOK', UNCHANGED parserVars
    PROVE  TypeOK'
<1>1. UNCHANGED <<at, message, pos, cursor, jumped, end_pos, hops, questions,
                  answers, extensions_end>>
  BY DEF parserVars, nameVars
<1>2. /\ HasExtension' = HasExtension /\ NamesServers' = NamesServers
      /\ ExtEnd' = ExtEnd /\ ExtStart' = ExtStart
  BY <1>1 DEF HasExtension, NamesServers, ExtEnd, ExtStart
<1>3. QED
  BY <1>1, <1>2 DEF TypeOK, InName

LEMMA ReadStep ==
    ASSUME IInv, Read
    PROVE  IInv' /\ WorkShrinks
<1>1. TypeOK /\ ReaderTypeOK /\ at = "idle" /\ at' = "idle"
  BY DEF IInv, TypeOK, Underway, Read, ReaderNext, Refuse, Open, ReadRecord, Stop,
         parserVars
<1>2. /\ file \in Buffer /\ Len(file) \in Nat /\ offset \in Nat
      /\ offset <= Len(file) /\ Len(raw) \in Nat /\ file' = file
      /\ segment' = segment /\ next' = next /\ UNCHANGED parserVars
  BY <1>1 DEF ReaderTypeOK, Buffer, Read, ReaderNext, Refuse, Open, ReadRecord,
              Stop, file
<1>3. ASSUME ReaderTypeOK' PROVE IInv'
  BY <1>1, <1>2, <1>3, ParserStays DEF IInv, Underway
<1>4. ASSUME ReaderStage' < ReaderStage PROVE WorkShrinks
  <2>1. Work'[1] < Work[1]
    BY <1>4 DEF Work
  <2>2. QED
    BY <2>1 DEF WorkShrinks
<1>5. CASE Refuse
  <2>1. ReaderTypeOK' /\ ReaderStage' < ReaderStage
    BY <1>1, <1>2, <1>5 DEF Refuse, ReaderTypeOK, ReaderStage
  <2>2. QED
    BY <2>1, <1>3, <1>4
<1>6. CASE Open
  <2>1. /\ U32(BigEndian(file, 20)) \in Nat /\ U32(LittleEndian(file, 20)) \in Nat
        /\ 24 \in 0 .. Len(file)
    BY <1>2, <1>6, DoubleWordAt DEF Open
  <2>2. big_endian' \in BOOLEAN /\ nano' \in BOOLEAN
    BY <1>6 DEF Open
  <2>3. link_type' \in Nat /\ offset' = 24 /\ reading' = "records" /\ raw' = raw
    BY <1>6, <2>1 DEF Open
  <2>4. ReaderTypeOK'
    BY <1>1, <1>2, <2>1, <2>2, <2>3 DEF ReaderTypeOK
  <2>5. ReaderStage' < ReaderStage
    BY <1>6 DEF Open, ReaderStage
  <2>6. QED
    BY <2>4, <2>5, <1>3, <1>4
<1>7. CASE ReadRecord
  <2> DEFINE data == Slice(file, offset + 16, offset + 16 + InclLen)
             record == [ts |-> Seconds, data |-> data]
  <2>1. /\ InclLen \in Nat /\ Seconds \in Nat
        /\ Inside(file, offset + 16, offset + 16 + InclLen)
    BY <1>1, <1>7, RecordInside DEF ReadRecord
  <2>2. data \in Buffer
    BY <1>2, <2>1, SliceInside
  <2>3. /\ raw' = Append(raw, record) /\ offset' = offset + 16 + InclLen
        /\ UNCHANGED <<reading, big_endian, nano, link_type>>
        /\ reading = "records"
    BY <1>7 DEF ReadRecord
  <2>4. raw \in Seq([ts : Nat, data : Buffer]) /\ record \in [ts : Nat, data : Buffer]
    BY <1>1, <2>1, <2>2 DEF ReaderTypeOK
  <2> HIDE DEF record
  <2>5. raw' \in Seq([ts : Nat, data : Buffer]) /\ Len(raw') = Len(raw) + 1
    BY <2>3, <2>4
  <2>6. offset' \in 0 .. Len(file) /\ offset < offset'
    BY <1>2, <2>1, <2>3 DEF Inside
  <2>7. ReaderTypeOK'
    BY <1>1, <1>2, <2>3, <2>5, <2>6 DEF ReaderTypeOK
  <2>8. Work'[1] = Work[1] /\ Work'[2] < Work[2]
    BY <1>2, <2>3, <2>6 DEF Work, ReaderStage
  <2>9. WorkShrinks
    BY <2>8 DEF WorkShrinks
  <2>10. QED
    BY <2>7, <2>9, <1>3
<1>8. CASE Stop
  <2>1. ReaderTypeOK' /\ ReaderStage' < ReaderStage
    BY <1>1, <1>2, <1>8 DEF Stop, ReaderTypeOK, ReaderStage
  <2>2. QED
    BY <2>1, <1>3, <1>4
<1>9. QED
  BY <1>5, <1>6, <1>7, <1>8 DEF Read, ReaderNext

(* A step to the next packet makes less work by the third number. *)
LEMMA PacketShrinks ==
    ASSUME ReaderTypeOK, UNCHANGED readerVars, next' = next + 1
    PROVE  WorkShrinks
<1>1. Len(raw) \in Nat /\ next \in Nat
  BY DEF ReaderTypeOK
<1>2. Work'[1] = Work[1] /\ Work'[2] = Work[2] /\ Work'[3] < Work[3]
  BY <1>1 DEF Work, ReaderStage, file, readerVars
<1>3. QED
  BY <1>2 DEF WorkShrinks

(* The types of the reader when the next packet is up. *)
LEMMA NextPacket ==
    ASSUME ReaderTypeOK, UNCHANGED <<readerVars, segment>>, next' = next + 1,
           next <= Len(raw)
    PROVE  ReaderTypeOK'
<1>1. next' \in 1 .. Len(raw) + 1
  BY DEF ReaderTypeOK
<1>2. QED
  BY <1>1 DEF ReaderTypeOK, readerVars, file

LEMMA SkipStep ==
    ASSUME IInv, Skip
    PROVE  IInv' /\ WorkShrinks
<1>1. /\ TypeOK /\ ReaderTypeOK /\ next <= Len(raw) /\ at = "idle" /\ at' = at
      /\ next' = next + 1 /\ UNCHANGED <<readerVars, segment>>
      /\ UNCHANGED parserVars
  BY DEF IInv, TypeOK, Skip, AtPacket, parserVars
<1>2. TypeOK'
  BY <1>1, NextPacket, ParserStays
<1>3. QED
  BY <1>1, <1>2, PacketShrinks DEF IInv, Underway

(* The bytes of the next packet. *)
LEMMA PacketData ==
    ASSUME ReaderTypeOK, next <= Len(raw)
    PROVE  raw[next].data \in Buffer
<1> DEFINE Packet == [ts : Nat, data : Buffer]
<1>1. raw \in Seq(Packet) /\ next \in 1 .. Len(raw)
  <2>1. raw \in Seq(Packet) /\ next \in 1 .. Len(raw) + 1
    BY DEF ReaderTypeOK
  <2> HIDE DEF Packet
  <2>2. QED
    BY <2>1
<1>2. raw[next] \in Packet
  <2> HIDE DEF Packet
  <2>1. QED
    BY <1>1
<1>3. QED
  BY <1>2

LEMMA TakeStep ==
    ASSUME IInv, Take
    PROVE  IInv' /\ WorkShrinks
<1> DEFINE data == raw[next].data
<1>1. /\ TypeOK /\ ReaderTypeOK /\ next \in 1 .. Len(raw) /\ at = "idle"
      /\ reading = "read" /\ Parses(data, link_type)
      /\ segment' = Segment(data, link_type)
      /\ Start(segment') /\ UNCHANGED <<readerVars, next>>
  BY DEF IInv, TypeOK, ReaderTypeOK, Take, AtPacket
<1>2. data \in Buffer
  BY <1>1, PacketData
<1> HIDE DEF data
<1>3. segment'.payload \in Buffer
  BY <1>1, <1>2, SegmentPayload
<1>4. ReaderTypeOK'
  BY <1>1, <1>3 DEF ReaderTypeOK, readerVars, file
<1>5. at' \in {"query", "response", "hello", "found"}
  BY <1>1 DEF Start, ParserFor
<1>6. /\ message' = segment'.payload /\ pos' = 0
      /\ UNCHANGED <<cursor, jumped, end_pos, hops, questions, answers,
                     extensions_end>>
  BY <1>1 DEF Start, nameVars
<1>7. Len(message') \in Nat
  BY <1>3, <1>6 DEF Buffer
<1>8. TypeOK'
  BY <1>1, <1>3, <1>4, <1>5, <1>6, <1>7 DEF TypeOK, InName, Steps
<1>9. Stage' < Stage
  BY <1>1, <1>5 DEF Stage
<1>10. WorkShrinks
  BY <1>1, <1>9, ParserShrinks
<1>11. Underway'
  BY <1>1, <1>5 DEF Underway, ReaderTypeOK, readerVars
<1>12. QED
  BY <1>8, <1>10, <1>11 DEF IInv

LEMMA ToldStep ==
    ASSUME IInv, Told
    PROVE  IInv' /\ WorkShrinks
<1>1. /\ TypeOK /\ ReaderTypeOK /\ next <= Len(raw) /\ at = "found" /\ at' = "idle"
      /\ next' = next + 1 /\ UNCHANGED <<readerVars, segment>>
      /\ UNCHANGED <<message, pos, cursor, jumped, end_pos, hops, questions,
                     answers, extensions_end>>
  BY DEF IInv, TypeOK, Underway, Told, nameVars
<1>2. ReaderTypeOK'
  BY <1>1, NextPacket
<1>3. TypeOK'
  BY <1>1, <1>2 DEF TypeOK, InName, Steps
<1>4. QED
  BY <1>1, <1>3, PacketShrinks DEF IInv, Underway

-----------------------------------------------------------------------------
(***************************************************************************)
(* The theorems                                                            *)
(***************************************************************************)

LEMMA Initially ==
    ASSUME Init
    PROVE  IInv
<1>1. <<>> \in Buffer /\ Len(<<>>) = 0
  BY DEF Buffer
<1>2. file \in Buffer /\ Len(file) \in Nat
  BY CaptureAssumption DEF Init, ReaderInit, file, Buffer
<1>3. raw \in Seq([ts : Nat, data : Buffer]) /\ next \in 1 .. Len(raw) + 1
  BY DEF Init, ReaderInit
<1>4. segment.payload \in Buffer
  <2>1. segment = Nowhere /\ Nowhere.payload = <<>>
    BY DEF Init, Nowhere
  <2>2. QED
    BY <1>1, <2>1
<1>5. ReaderTypeOK
  <2>1. /\ reading = "open" /\ big_endian = FALSE /\ nano = FALSE
        /\ link_type = 0 /\ offset = 0
    BY DEF Init, ReaderInit
  <2>2. QED
    <3>1. big_endian \in BOOLEAN /\ nano \in BOOLEAN
      BY <2>1, Zenon
    <3>2. link_type \in Nat /\ offset \in 0 .. Len(file)
      BY <1>2, <2>1
    <3>3. QED
      BY <1>2, <1>3, <1>4, <2>1, <3>1, <3>2, Zenon DEF ReaderTypeOK
<1>6. TypeOK
  <2>1. /\ at = "idle" /\ message = <<>> /\ pos = 0 /\ cursor = 0 /\ end_pos = 0
        /\ hops = 0 /\ jumped = FALSE /\ questions = 0 /\ answers = 0
        /\ extensions_end = 0
    BY DEF Init, ParserInit
  <2>2. message \in Buffer /\ pos \in 0 .. Len(message) /\ hops \in 0 .. MAX_HOPS
    BY <1>1, <2>1, HopsAssumption
  <2>3. QED
    BY <1>5, <2>1, <2>2 DEF TypeOK, InName, Steps
<1>7. QED
  BY <1>6 DEF IInv, Underway, Init, ParserInit

LEMMA Step ==
    ASSUME IInv, Next
    PROVE  IInv' /\ WorkShrinks
<1>1. CASE Read
  BY <1>1, ReadStep
<1>2. CASE Skip
  BY <1>2, SkipStep
<1>3. CASE Take
  BY <1>3, TakeStep
<1>4. CASE Told
  BY <1>4, ToldStep
<1>5. CASE Parse
  <2>1. ParserNext(segment.payload) /\ UNCHANGED <<readerVars, next, segment>>
    BY <1>5 DEF Parse
  <2>2. QED
    BY <2>1, ReadQueryStep, ReadHeaderStep, NextItemStep, NameFailsStep,
       NameEndsStep, JumpStep, LabelStep, ItemFailsStep, ReadQuestionStep,
       ReadAnswerStep, ReadHelloStep, SkipExtensionStep, EnterListStep,
       TakeNameStep, SkipNameStep, LeaveListStep, TryHttpStep
    DEF ParserNext
<1>6. QED
  BY <1>1, <1>2, <1>3, <1>4, <1>5 DEF Next

LEMMA Stutter ==
    ASSUME IInv, UNCHANGED vars
    PROVE  IInv'
<1>1. UNCHANGED <<readerVars, next, segment>> /\ UNCHANGED parserVars
  BY DEF vars
<1>2. TypeOK'
  BY <1>1, ReaderStays, ParserStays DEF IInv, TypeOK
<1>3. QED
  BY <1>1, <1>2 DEF IInv, Underway, readerVars, parserVars

(* What is under way is well-formed, whatever the bytes of the capture are:  *)
(* the inductive invariant of this module.                                  *)
THEOREM InvariantHolds == Spec => []IInv
<1>1. Init => IInv
  BY Initially
<1>2. IInv /\ [Next]_vars => IInv'
  BY Step, Stutter
<1>3. QED
  BY <1>1, <1>2, PTL DEF Spec

(* Every position of the readers and parsers keeps its range.               *)
THEOREM TypeCorrect == Spec => []TypeOK
<1>1. IInv => TypeOK
  BY DEF IInv
<1>2. QED
  BY <1>1, InvariantHolds, PTL

LEMMA NothingPanics ==
    ASSUME IInv
    PROVE  NeverPanics
<1>1. /\ TypeOK /\ ReaderTypeOK /\ message \in Buffer /\ Len(message) \in Nat
      /\ pos \in Nat
  BY DEF IInv, TypeOK, Buffer
<1>2. reading = "records" /\ RecordIsWhole =>
          Inside(file, offset + 16, offset + 16 + InclLen)
  BY <1>1, RecordInside
<1>3. ASSUME AtPacket,
             NEW ip, ip = Datagram(raw[next].data, link_type), IpAccepted(ip)
      PROVE  /\ Inside(ip, HeaderLength(ip), IpEnd(ip))
             /\ L4Accepted(IpPacket(ip).protocol, IpPacket(ip).data) =>
                   Inside(IpPacket(ip).data,
                          L4Length(IpPacket(ip).protocol, IpPacket(ip).data),
                          Len(IpPacket(ip).data))
  <2>1. raw[next].data \in Buffer
    BY <1>1, <1>3, PacketData DEF AtPacket
  <2>2. ip \in Buffer
    BY <1>3, <2>1, DatagramBuffer
  <2>3. Inside(ip, HeaderLength(ip), IpEnd(ip))
    BY <1>3, <2>2, IpInside
  <2>4. IpPacket(ip).data = Slice(ip, HeaderLength(ip), IpEnd(ip))
    BY DEF IpPacket
  <2>5. IpPacket(ip).data \in Buffer
    BY <1>3, <2>2, <2>3, <2>4, IpInside, SliceInside
  <2>6. QED
    BY <2>3, <2>5, L4Inside
<1>4. at = "hello" /\ IsHello =>
          /\ Inside(message, 5, AtMostOf(5 + U16(message, 3), Len(message)))
          /\ MethodsEnd(Record) + 2 <= Len(Record)
  BY <1>1, HelloInside DEF Buffer
<1>5. at = "item" /\ ItemIsWhole /\ questions = 0 =>
          Inside(message, pos + 10, pos + 10 + RdLength)
  BY <1>1, AnswerInside
<1>6. at = "extensions" /\ HasExtension => Inside(message, ExtStart, ExtEnd)
  BY <1>1, ExtensionInside DEF Inside, TypeOK
<1>7. ASSUME at = "names"
      PROVE  /\ Inside(message, ExtStart, ExtEnd)
             /\ ListEnd <= ExtEnd - ExtStart
             /\ HasName => /\ NameStart <= NameEnd
                           /\ ExtStart + NameEnd <= Len(message)
  <2>1. HasExtension /\ extensions_end \in Nat
    BY <1>1, <1>7 DEF TypeOK
  <2>2. /\ ExtStart \in Nat /\ ExtEnd \in Nat /\ ExtStart <= ExtEnd
        /\ ExtEnd <= Len(message)
    BY <1>1, <1>7, <2>1, ExtensionInside
  <2>3. QED
    BY <1>1, <1>7, <2>2, NameInside DEF Inside
<1>8. QED
  BY <1>2, <1>3, <1>4, <1>5, <1>6, <1>7 DEF NeverPanics

(* The claim of parse.rs that nothing malformed makes it panic, for every   *)
(* capture: no index and no slice of it leaves its buffer.                   *)
THEOREM NoPanics == Spec => []NeverPanics
<1>1. IInv => NeverPanics
  BY NothingPanics
<1>2. QED
  BY <1>1, InvariantHolds, PTL

(* What Work counts is a tuple of natural numbers. *)
LEMMA WorkNatural ==
    ASSUME IInv
    PROVE  \A i \in 1 .. 7 : Work[i] \in Nat
<1>1. /\ TypeOK /\ ReaderTypeOK /\ message \in Buffer /\ Len(message) \in Nat
      /\ pos \in Nat /\ pos <= Len(message) /\ MAX_HOPS \in Nat
      /\ hops \in Nat /\ hops <= MAX_HOPS /\ questions \in Nat /\ answers \in Nat
  BY HopsAssumption DEF IInv, TypeOK, Buffer
<1>2. Len(file) - offset \in Nat /\ Len(raw) + 1 - next \in Nat
  BY <1>1 DEF ReaderTypeOK, Buffer
<1>3. ReaderStage \in Nat /\ Stage \in Nat /\ Place \in Nat
  BY DEF ReaderStage, Stage, Place
<1>4. Items \in Nat
  BY <1>1 DEF Items
<1>5. Turns \in Nat
  <2>1. CASE at = "names"
    <3>1. HasExtension /\ cursor \in Nat /\ cursor <= ExtEnd - ExtStart
      BY <1>1, <2>1 DEF TypeOK
    <3>2. /\ ExtStart \in Nat /\ ExtEnd \in Nat /\ ExtEnd <= Len(message)
      BY <1>1, <2>1, <3>1, ExtensionInside DEF TypeOK
    <3>3. QED
      BY <1>1, <2>1, <3>1, <3>2 DEF Turns
  <2>2. CASE at # "names"
    BY <1>1, <2>2 DEF Turns
  <2>3. QED
    BY <2>1, <2>2
<1>6. /\ Work[1] = ReaderStage /\ Work[2] = Len(file) - offset
      /\ Work[3] = Len(raw) + 1 - next /\ Work[4] = Stage /\ Work[5] = Items
      /\ Work[6] = Place /\ Work[7] = Turns
  BY DEF Work
<1>7. SUFFICES ASSUME NEW i \in 1 .. 7
               PROVE  Work[i] \in Nat
  OBVIOUS
<1>8. i = 1 \/ i = 2 \/ i = 3 \/ i = 4 \/ i = 5 \/ i = 6 \/ i = 7
  OBVIOUS
<1>9. QED
  BY <1>2, <1>3, <1>4, <1>5, <1>6, <1>8

(* Every loop of the reader and of the parsers ends, for every capture.      *)
THEOREM EveryLoopEnds == Spec => BoundedWork
<1>1. IInv /\ [Next]_vars => [(\A i \in 1 .. 7 : Work[i] \in Nat) /\ WorkShrinks]_vars
  BY WorkNatural, Step
<1>2. QED
  BY <1>1, InvariantHolds, PTL DEF Spec, BoundedWork

-----------------------------------------------------------------------------
(***************************************************************************)
(* Induction, on a set instead of a predicate                              *)
(***************************************************************************)

(* Of some natural numbers, one is the least. *)
LEMMA LeastNatural ==
    ASSUME NEW T, T \subseteq Nat, T # {}
    PROVE  \E x \in T : \A y \in T : x <= y
<1>1. PICK R : R = OpToRel(<, Nat)
  OBVIOUS
<1>2. IsWellFoundedOn(R, Nat)
  BY <1>1, NatLessThanWellFounded
<1>3. PICK x \in T : \A y \in T : ~ (<<y, x>> \in R)
  BY <1>2, WFMin
<1>4. \A y \in T : y < x => <<y, x>> \in R
  BY <1>1 DEF OpToRel
<1>5. \A y \in T : ~ (y < x)
  BY <1>3, <1>4
<1>6. \A y \in T : x \in Nat /\ y \in Nat
  OBVIOUS
<1>7. QED
  BY <1>5, <1>6

(* What holds of zero, and of n + 1 if of n, holds of all natural numbers. *)
LEMMA SetInduction ==
    ASSUME NEW S, 0 \in S, \A n \in Nat : n \in S => n + 1 \in S
    PROVE  Nat \subseteq S
<1>1. SUFFICES ASSUME Nat \ S # {} PROVE FALSE
  OBVIOUS
<1>2. PICK x \in Nat \ S : \A y \in Nat \ S : x <= y
  BY <1>1, LeastNatural
<1>3. x # 0 /\ x - 1 \in Nat /\ x - 1 \in S
  BY <1>2
<1>4. QED
  BY <1>2, <1>3

-----------------------------------------------------------------------------
(***************************************************************************)
(* Names                                                                   *)
(***************************************************************************)

NoNames(buf) == [i \in 0 .. Len(buf) - 1 |-> None]

\* f gives the names for 0 to n turns.
NamesUpTo(f, n, buf) ==
    f = [turns \in 0 .. n |->
            IF turns = 0 THEN NoNames(buf) ELSE OneMoreTurn(buf, f[turns - 1])]

(* There is such a function for every n. *)
LEMMA NamesExist ==
    ASSUME NEW buf, NEW m \in Nat
    PROVE  \E f : NamesUpTo(f, m, buf)
<1> DEFINE S == {n \in Nat : \E f : NamesUpTo(f, n, buf)}
<1>1. 0 \in S
  <2>1. NamesUpTo([turns \in 0 .. 0 |-> NoNames(buf)], 0, buf)
    BY DEF NamesUpTo
  <2>2. QED
    BY <2>1
<1>2. ASSUME NEW n \in Nat, n \in S
      PROVE  n + 1 \in S
  <2>1. PICK f : NamesUpTo(f, n, buf)
    BY <1>2
  <2> DEFINE g == [turns \in 0 .. n + 1 |->
                      IF turns <= n THEN f[turns] ELSE OneMoreTurn(buf, f[n])]
  <2>2. \A turns \in 0 .. n + 1 :
            g[turns] = IF turns = 0 THEN NoNames(buf)
                       ELSE OneMoreTurn(buf, g[turns - 1])
    <3>1. SUFFICES ASSUME NEW turns \in 0 .. n + 1
                   PROVE  g[turns] = IF turns = 0 THEN NoNames(buf)
                                     ELSE OneMoreTurn(buf, g[turns - 1])
      OBVIOUS
    <3>2. CASE turns = 0
      BY <2>1, <3>2 DEF NamesUpTo
    <3>3. CASE turns \in 1 .. n
      BY <2>1, <3>3 DEF NamesUpTo
    <3>4. CASE turns = n + 1
      BY <3>4
    <3>5. QED
      BY <3>2, <3>3, <3>4
  <2>3. NamesUpTo(g, n + 1, buf)
    BY <2>2 DEF NamesUpTo
  <2>4. QED
    BY <2>3
<1>3. QED
  <2>1. Nat \subseteq S
    <3> HIDE DEF S
    <3> QED BY <1>1, <1>2, SetInduction
  <2>2. QED
    BY <2>1

(* The names for one turn more are told from those for the turns before. *)
LEMMA NamesWithinTurns ==
    ASSUME NEW buf
    PROVE  /\ NamesWithin(buf)[0] = NoNames(buf)
           /\ \A turns \in 1 .. MAX_HOPS :
                 NamesWithin(buf)[turns] = OneMoreTurn(buf, NamesWithin(buf)[turns - 1])
<1>1. NamesWithin(buf) = CHOOSE f : NamesUpTo(f, MAX_HOPS, buf)
  BY DEF NamesWithin, NamesUpTo, NoNames
<1>2. NamesUpTo(NamesWithin(buf), MAX_HOPS, buf)
  BY <1>1, NamesExist, HopsAssumption
<1>3. QED
  BY <1>2, HopsAssumption DEF NamesUpTo

\* String::from_utf8_lossy gives text, and loses none: what is not UTF-8
\* becomes a replacement character.
LossyKeepsText ==
    \A bytes \in Buffer :
        /\ Lossy(bytes) \in Seq(Nat)
        /\ bytes # <<>> => Lossy(bytes) # <<>>

Readings == [text : Seq(Nat), behind : Nat]

(* A name without labels is text. *)
LEMMA EmptyText == <<>> \in Seq(Nat)
OBVIOUS

(* Parts of names give a name. *)
LEMMA JoinedText ==
    ASSUME NEW a \in Seq(Nat), NEW b \in Seq(Nat)
    PROVE  Joined(a, b) \in Seq(Nat)
<1>1. <<46>> \in Seq(Nat)
  OBVIOUS
<1>2. a \o <<46>> \o b \in Seq(Nat)
  BY <1>1, ConcatProperties
<1>3. QED
  BY <1>2 DEF Joined

(* Nothing before a text leaves the text. *)
LEMMA NothingBefore == \A s \in Seq(Nat) : <<>> \o s = s
BY ConcatEmptySeq

(* Texts one behind the other. *)
LEMMA TextAssociative ==
    \A s, t, u \in Seq(Nat) : (s \o t) \o u = s \o (t \o u)
BY SMTT(30), ConcatAssociative

\* The name with one more label, as read_dns_name adds it.
Longer(part, label) == (IF part = <<>> THEN <<>> ELSE Append(part, 46)) \o label

(* read_dns_name adds a label behind the dot; then comes the rest. *)
LEMMA JoinedLabel ==
    ASSUME NEW part \in Seq(Nat), NEW label \in Seq(Nat), NEW rest \in Seq(Nat),
           label # <<>>
    PROVE  /\ Longer(part, label) \in Seq(Nat)
           /\ Joined(part, Joined(label, rest)) = Joined(Longer(part, label), rest)
<1>0. PICK longer : longer = Longer(part, label)
  OBVIOUS
<1>1. PICK dot : dot = <<46>> /\ dot \in Seq(Nat)
  <2>1. <<46>> \in Seq(Nat)
    OBVIOUS
  <2>2. QED
    BY <2>1
<1>2. CASE part = <<>>
  <2>1. longer = label
    <3>1. longer = <<>> \o label
      BY <1>0, <1>2 DEF Longer
    <3>2. QED
      BY <3>1, NothingBefore
  <2>2. QED
    BY <1>0, <1>2, <2>1 DEF Joined
<1>3. CASE part # <<>>
  <2>1. longer = (part \o dot) \o label
    BY <1>0, <1>1, <1>3, AppendIsConcat DEF Longer
  <2>2. /\ part \o dot \in Seq(Nat) /\ longer \in Seq(Nat)
        /\ Len(longer) = Len(part) + 1 + Len(label)
    BY <1>1, <2>1, ConcatProperties
  <2>3. longer # <<>>
    BY <2>2
  <2>4. CASE rest = <<>>
    BY <1>0, <1>1, <1>3, <2>1, <2>2, <2>3, <2>4 DEF Joined
  <2>5. CASE rest # <<>>
    <3>1. label \o dot \in Seq(Nat) /\ dot \o rest \in Seq(Nat)
      BY <1>1, ConcatProperties
    <3>2. label \o dot \o rest \in Seq(Nat)
      BY <3>1, ConcatProperties
    <3>3. label \o dot \o rest # <<>>
      <4>1. Len(label \o dot \o rest) = Len(label) + 1 + Len(rest)
        BY <1>1, <3>1, ConcatProperties
      <4>2. Len(label \o dot \o rest) > 0
        BY <4>1
      <4>3. QED
        BY <4>2
    <3>4. Joined(part, Joined(label, rest))
            = (part \o dot) \o ((label \o dot) \o rest)
      BY <1>1, <1>3, <2>5, <3>3 DEF Joined
    <3>5. (label \o dot) \o rest = label \o (dot \o rest)
      BY <1>1, TextAssociative
    <3>6. (part \o dot) \o (label \o (dot \o rest))
            = ((part \o dot) \o label) \o (dot \o rest)
      <4>1. \A s, u \in Seq(Nat) : (s \o label) \o u = s \o (label \o u)
        BY TextAssociative
      <4>2. QED
        BY <2>2, <3>1, <4>1, ZenonT(30)
    <3>7. longer \o (dot \o rest) = (longer \o dot) \o rest
      <4>1. \A s \in Seq(Nat) : (s \o dot) \o rest = s \o (dot \o rest)
        BY <1>1, TextAssociative
      <4>2. QED
        BY <2>2, <4>1
    <3>8. Joined(longer, rest) = (longer \o dot) \o rest
      BY <1>1, <2>3, <2>5 DEF Joined
    <3>9. QED
      BY <1>0, <2>1, <2>2, <3>4, <3>5, <3>6, <3>7, <3>8
  <2>6. QED
    BY <1>0, <2>2, <2>4, <2>5
<1>4. QED
  BY <1>2, <1>3

(* The six low bits of a byte whose two high bits are set. *)
LEMMA PointerBits ==
    ASSUME NEW octet \in Byte, octet >= 192
    PROVE  octet % 64 = octet - 192
<1>1. octet \in 192 .. 255
  BY DEF Byte
<1>2. \A o \in 192 .. 255 : o % 64 = o - 192
  OBVIOUS
<1>3. QED
  BY <1>1, <1>2

(* One turn of reading a name, from what stands where it goes on. *)
LEMMA NameTurn ==
    ASSUME NEW buf \in Buffer, NEW turns \in Nat, turns < MAX_HOPS,
           NEW i \in Nat, i < Len(buf),
           NEW here, here = NameAt(buf, turns + 1, i),
           NEW octet, octet = At(buf, i)
    PROVE  /\ octet = 0 => here = [text |-> <<>>, behind |-> i + 1]
           /\ octet >= 192 /\ i + 1 >= Len(buf) => here = None
           /\ octet >= 192 /\ i + 1 < Len(buf) =>
                 LET rest == NameAt(buf, turns, 256 * (octet % 64) + At(buf, i + 1))
                 IN  here = IF rest = None THEN None
                            ELSE [text |-> rest.text, behind |-> i + 2]
           /\ octet \in 1 .. 191 =>
                 LET to   == i + 1 + octet
                     rest == NameAt(buf, turns, to)
                 IN  here = IF rest = None THEN None
                            ELSE [text   |-> Joined(Lossy(Slice(buf, i + 1, to)), rest.text),
                                  behind |-> rest.behind]
<1>1. Len(buf) \in Nat /\ i \in 0 .. Len(buf) - 1 /\ octet \in Byte
  BY ByteAt DEF Buffer
<1>2. PICK names : names = NamesWithin(buf)[turns]
  OBVIOUS
<1>3. here = OneMoreTurn(buf, names)[i]
  <2>1. turns + 1 \in 1 .. MAX_HOPS /\ turns + 1 - 1 = turns
    BY HopsAssumption
  <2>2. QED
    BY <1>2, <2>1, NamesWithinTurns DEF NameAt
<1>4. \A to : NameAt(buf, turns, to) = IF to < Len(buf) THEN names[to] ELSE None
  BY <1>2 DEF NameAt
<1>5. octet = 0 => here = [text |-> <<>>, behind |-> i + 1]
  BY <1>1, <1>3 DEF OneMoreTurn
<1>6. octet >= 192 /\ i + 1 >= Len(buf) => here = None
  BY <1>1, <1>3 DEF OneMoreTurn
<1>7. ASSUME octet >= 192, i + 1 < Len(buf),
             NEW to, to = 256 * (octet % 64) + At(buf, i + 1)
      PROVE  here = IF NameAt(buf, turns, to) = None THEN None
                    ELSE [text |-> NameAt(buf, turns, to).text, behind |-> i + 2]
  <2>1. At(buf, i + 1) \in Nat
    BY <1>1, <1>7, ByteAt, ByteIsNatural
  <2>2. octet \in Nat /\ octet >= 192
    BY <1>1, <1>7, ByteIsNatural
  <2>3. octet % 64 = octet - 192
    BY <1>1, <2>2, PointerBits
  <2>4. to = (octet - 192) * 256 + At(buf, i + 1) /\ to \in Nat
    BY SMTT(30), <1>7, <2>1, <2>2, <2>3
  <2>5. here = IF to >= Len(buf) THEN None
               ELSE IF names[to] = None THEN None
               ELSE [text |-> names[to].text, behind |-> i + 2]
    BY SMTT(30), <1>1, <1>3, <1>7, <2>2, <2>4 DEF OneMoreTurn
  <2>6. QED
    BY <1>1, <1>4, <2>4, <2>5
<1>8. ASSUME octet \in 1 .. 191, NEW to, to = i + 1 + octet
      PROVE  here = IF NameAt(buf, turns, to) = None THEN None
                    ELSE [text   |-> Joined(Lossy(Slice(buf, i + 1, to)),
                                            NameAt(buf, turns, to).text),
                          behind |-> NameAt(buf, turns, to).behind]
  <2>1. octet \in Nat /\ ~(octet >= 192) /\ octet # 0
    <3>1. \A o \in 1 .. 191 : o \in Nat /\ ~(o >= 192) /\ o # 0
      OBVIOUS
    <3>2. QED
      BY <1>8, <3>1
  <2>3. to \in Nat
    BY <1>8, <2>1
  <2>2. here = IF to >= Len(buf) THEN None
               ELSE IF names[to] = None THEN None
               ELSE [text   |-> Joined(Lossy(Slice(buf, i + 1, to)), names[to].text),
                     behind |-> names[to].behind]
    BY <1>1, <1>3, <1>8, <2>1 DEF OneMoreTurn
  <2>4. QED
    BY <1>1, <1>4, <2>2, <2>3
<1>9. QED
  BY <1>5, <1>6, <1>7, <1>8

(* A zero ends the name. *)
LEMMA LastTurn ==
    ASSUME NEW buf \in Buffer, NEW turns \in Nat, turns < MAX_HOPS,
           NEW i \in Nat, i < Len(buf), At(buf, i) = 0
    PROVE  NameAt(buf, turns + 1, i) = [text |-> <<>>, behind |-> i + 1]
<1>1. PICK here, octet : here = NameAt(buf, turns + 1, i) /\ octet = At(buf, i)
  OBVIOUS
<1>2. octet = 0 => here = [text |-> <<>>, behind |-> i + 1]
  BY <1>1, NameTurn
<1>3. QED
  BY <1>1, <1>2

(* No name goes on with half a pointer, or with a label and no name. *)
LEMMA BrokenTurn ==
    ASSUME NEW buf \in Buffer, NEW turns \in Nat, turns < MAX_HOPS,
           NEW i \in Nat, i < Len(buf),
           \/ At(buf, i) >= 192 /\ i + 1 >= Len(buf)
           \/ /\ At(buf, i) \in 1 .. 191
              /\ NameAt(buf, turns, i + 1 + At(buf, i)) = None
    PROVE  NameAt(buf, turns + 1, i) = None
<1>1. PICK here, octet : here = NameAt(buf, turns + 1, i) /\ octet = At(buf, i)
  OBVIOUS
<1>2. octet >= 192 /\ i + 1 >= Len(buf) => here = None
  BY <1>1, NameTurn
<1>3. PICK to : to = i + 1 + octet
  OBVIOUS
<1>4. octet \in 1 .. 191 /\ NameAt(buf, turns, to) = None => here = None
  BY <1>1, <1>3, NameTurn
<1>5. QED
  BY <1>1, <1>2, <1>3, <1>4

(* Without a turn, or behind the message, there is no name. *)
LEMMA NoName ==
    ASSUME NEW buf \in Buffer, NEW turns \in 0 .. MAX_HOPS, NEW i \in Nat,
           turns = 0 \/ i >= Len(buf)
    PROVE  NameAt(buf, turns, i) = None
<1>1. CASE i >= Len(buf)
  BY <1>1 DEF NameAt, Buffer
<1>2. CASE i < Len(buf) /\ turns = 0
  <2>1. i \in 0 .. Len(buf) - 1
    BY <1>2 DEF Buffer
  <2>2. NoNames(buf)[i] = None
    BY <2>1 DEF NoNames
  <2>3. NameAt(buf, turns, i) = NoNames(buf)[i]
    BY <1>2, NamesWithinTurns DEF NameAt
  <2>4. QED
    BY <2>2, <2>3
<1>3. QED
  BY <1>1, <1>2 DEF Buffer

(* What is read is a text and a place, or None. *)
LEMMA NameIsReading ==
    ASSUME LossyKeepsText, NEW buf \in Buffer
    PROVE  \A turns \in 0 .. MAX_HOPS : \A i \in Nat :
              NameAt(buf, turns, i) \in Readings \cup {None}
<1> DEFINE Good(t) == t <= MAX_HOPS =>
              \A i \in Nat : NameAt(buf, t, i) \in Readings \cup {None}
           S == {t \in Nat : Good(t)}
<1>1. 0 \in S
  <2>1. \A i \in Nat : NameAt(buf, 0, i) = None
    BY NoName, HopsAssumption
  <2>2. QED
    BY <2>1
<1>2. ASSUME NEW t \in Nat, t \in S
      PROVE  t + 1 \in S
  <2>1. SUFFICES ASSUME t + 1 <= MAX_HOPS, NEW i \in Nat
                 PROVE  NameAt(buf, t + 1, i) \in Readings \cup {None}
    OBVIOUS
  <2>2. t < MAX_HOPS /\ \A j \in Nat : NameAt(buf, t, j) \in Readings \cup {None}
    BY <1>2, <2>1, HopsAssumption
  <2>3. CASE i >= Len(buf)
    BY <2>1, <2>3, NoName, HopsAssumption
  <2>4. CASE i < Len(buf)
    <3>1. PICK octet : octet = At(buf, i)
      OBVIOUS
    <3>2. octet \in Byte
      BY <2>4, <3>1, ByteAt
    <3>3. CASE octet = 0
      <4>1. NameAt(buf, t + 1, i) = [text |-> <<>>, behind |-> i + 1]
        BY <2>2, <2>4, <3>1, <3>3, LastTurn
      <4>2. <<>> \in Seq(Nat)
        BY EmptyText
      <4>3. [text |-> <<>>, behind |-> i + 1] \in Readings
        BY <4>2 DEF Readings
      <4>4. QED
        BY <4>1, <4>3
    <3>4. CASE octet >= 192 /\ i + 1 >= Len(buf)
      BY <2>2, <2>4, <3>1, <3>4, NameTurn
    <3>5. CASE octet >= 192 /\ i + 1 < Len(buf)
      <4>1. 256 * (octet % 64) + At(buf, i + 1) \in Nat
        BY <3>2, <3>5, ByteAt, ByteArithmetic
      <4>2. PICK rest : rest = NameAt(buf, t, 256 * (octet % 64) + At(buf, i + 1))
        OBVIOUS
      <4>3. NameAt(buf, t + 1, i) = IF rest = None THEN None
                                    ELSE [text |-> rest.text, behind |-> i + 2]
        <5>1. PICK here : here = NameAt(buf, t + 1, i)
          OBVIOUS
        <5>2. here = LET ahead == NameAt(buf, t, 256 * (octet % 64) + At(buf, i + 1))
                     IN  IF ahead = None THEN None
                         ELSE [text |-> ahead.text, behind |-> i + 2]
          BY <2>2, <2>4, <3>1, <3>5, <5>1, NameTurn
        <5>3. QED
          BY <4>2, <5>1, <5>2
      <4>4. rest \in Readings \cup {None}
        BY <2>2, <4>1, <4>2
      <4>5. QED
        BY <4>3, <4>4 DEF Readings
    <3>6. CASE octet \in 1 .. 191
      <4>1. PICK to, rest : to = i + 1 + octet /\ rest = NameAt(buf, t, to)
        OBVIOUS
      <4>2. PICK label : label = Lossy(Slice(buf, i + 1, to))
        OBVIOUS
      <4>3. NameAt(buf, t + 1, i) =
              IF rest = None THEN None
              ELSE [text |-> Joined(label, rest.text), behind |-> rest.behind]
        BY <2>2, <2>4, <3>1, <3>6, <4>1, <4>2, NameTurn
      <4>4. to \in Nat /\ rest \in Readings \cup {None}
        BY <2>2, <3>6, <4>1
      <4>5. CASE rest # None
        <5>1. to < Len(buf)
          BY <2>1, <4>1, <4>4, <4>5, NoName, HopsAssumption DEF Buffer
        <5>2. Slice(buf, i + 1, to) \in Buffer
          BY <3>6, <4>1, <4>4, <5>1, SliceInside DEF Inside, Buffer
        <5>3. label \in Seq(Nat)
          BY <4>2, <5>2 DEF LossyKeepsText
        <5>4. Joined(label, rest.text) \in Seq(Nat)
          BY <4>4, <4>5, <5>3, JoinedText DEF Readings
        <5>5. QED
          BY <4>3, <4>4, <4>5, <5>4 DEF Readings
      <4>6. QED
        BY <4>3, <4>5
    <3>7. QED
      BY <3>2, <3>3, <3>4, <3>5, <3>6 DEF Byte, Buffer
  <2>5. QED
    BY <2>3, <2>4 DEF Buffer
<1>3. Nat \subseteq S
  <2> HIDE DEF S
  <2> QED BY <1>1, <1>2, SetInduction
<1>4. QED
  BY <1>3, HopsAssumption

-----------------------------------------------------------------------------

\* Where the name that is read starts.
StartOfName == IF at = "asked" THEN 12 ELSE pos

\* What has been read of a name, together with what stands ahead for the turns
\* that are left, is the whole name.  The place behind it is known after the
\* first pointer, and else comes with what stands ahead.
NameSoFar ==
    /\ at \in {"query", "asked"} => hostname = None
    /\ InName =>
          LET whole == WholeName(message, StartOfName)
              ahead == NameAt(message, MAX_HOPS - hops, cursor)
          IN  /\ name \in Seq(Nat)
              /\ ahead = None <=> whole = None
              /\ whole # None =>
                    /\ whole.text = Joined(name, ahead.text)
                    /\ whole.behind = IF jumped THEN end_pos ELSE ahead.behind

(* Where no name is read, and none is going to be asked for. *)
LEMMA ElsewhereSoFar ==
    ASSUME at' \notin {"query", "asked", "name"}
    PROVE  NameSoFar'
BY DEF NameSoFar, InName

(* Before the first turn, all of the name stands ahead. *)
LEMMA StartSoFar ==
    ASSUME NEW from, StartName(from), at' \in {"asked", "name"},
           from = StartOfName', hostname' = hostname,
           at' = "asked" => hostname = None
    PROVE  NameSoFar'
<1>1. MAX_HOPS - hops' = MAX_HOPS /\ cursor' = from /\ name' = <<>> /\ jumped' = FALSE
  BY HopsAssumption DEF StartName
<1>2. \A text : Joined(<<>>, text) = text
  BY DEF Joined
<1>3. NameAt(message', MAX_HOPS - hops', cursor') = WholeName(message', StartOfName')
  BY <1>1 DEF WholeName
<1>4. QED
  BY <1>1, <1>2, <1>3, EmptyText DEF NameSoFar

(* A pointer: the text ahead stays, and its end is the end of the name unless *)
(* there was a pointer before.                                                *)
LEMMA JumpSoFar ==
    ASSUME LossyKeepsText, IInv, NameSoFar, Jump
    PROVE  NameSoFar'
<1>1. /\ message \in Buffer /\ cursor \in Nat /\ cursor < Len(message)
      /\ hops \in Nat /\ hops < MAX_HOPS /\ Octet >= 192 /\ cursor + 1 < Len(message)
      /\ InName /\ MAX_HOPS \in Nat
  BY HopsAssumption DEF IInv, TypeOK, Jump, TakesTurn
<1>2. PICK turns : turns = MAX_HOPS - hops - 1
  OBVIOUS
<1>3. turns \in Nat /\ turns < MAX_HOPS /\ turns + 1 = MAX_HOPS - hops
  BY <1>1, <1>2
<1>4. PICK ahead, rest : /\ ahead = NameAt(message, MAX_HOPS - hops, cursor)
                         /\ rest = NameAt(message, turns, cursor')
  OBVIOUS
<1>5. ahead = IF rest = None THEN None ELSE [text |-> rest.text, behind |-> cursor + 2]
  BY <1>1, <1>3, <1>4, NameTurn DEF Jump, Octet
<1>6. /\ MAX_HOPS - hops' = turns /\ message' = message /\ name' = name
      /\ at' = at /\ pos' = pos /\ hostname' = hostname /\ jumped' = TRUE
      /\ end_pos' = IF jumped THEN end_pos ELSE cursor + 2
  BY <1>1, <1>2 DEF Jump, foundVars
<1>7. ahead = None <=> rest = None
  <2>1. turns \in 0 .. MAX_HOPS /\ cursor' \in Nat
    <3>1. Octet \in Byte /\ At(message, cursor + 1) \in Byte
      BY <1>1, ByteAt DEF Octet
    <3>2. QED
      BY <1>1, <1>3, <3>1, ByteArithmetic DEF Jump
  <2>2. rest \in Readings \cup {None}
    BY <1>1, <1>4, <2>1, NameIsReading
  <2>3. rest # None => [text |-> rest.text, behind |-> cursor + 2] \in Readings
    BY <1>1, <2>2 DEF Readings
  <2>4. QED
    BY <1>5, <2>3, NoneAssumption DEF Readings
<1>8. PICK whole : whole = WholeName(message, StartOfName)
  OBVIOUS
<1>9. whole = WholeName(message', StartOfName') /\ InName'
  BY <1>1, <1>6, <1>8 DEF StartOfName, InName
<1>10. /\ name \in Seq(Nat)
       /\ ahead = None <=> whole = None
       /\ whole # None =>
             /\ whole.text = Joined(name, ahead.text)
             /\ whole.behind = IF jumped THEN end_pos ELSE ahead.behind
  BY <1>1, <1>4, <1>8 DEF NameSoFar
<1>11. whole # None =>
          /\ whole.text = Joined(name, rest.text)
          /\ whole.behind = end_pos'
  BY <1>5, <1>6, <1>7, <1>10
<1>12. rest = NameAt(message', MAX_HOPS - hops', cursor')
  BY <1>4, <1>6
<1>13. /\ name' \in Seq(Nat)
       /\ rest = None <=> whole = None
       /\ whole # None =>
             /\ whole.text = Joined(name', rest.text)
             /\ whole.behind = IF jumped' THEN end_pos' ELSE rest.behind
  BY <1>6, <1>7, <1>10, <1>11
<1>14. at' \in {"query", "asked"} => hostname' = None
  BY <1>6 DEF NameSoFar
<1>15. QED
  BY <1>9, <1>12, <1>13, <1>14 DEF NameSoFar

(* A label: what was ahead begins with it. *)
LEMMA LabelSoFar ==
    ASSUME LossyKeepsText, IInv, NameSoFar, Label
    PROVE  NameSoFar'
<1>1. /\ message \in Buffer /\ cursor \in Nat /\ cursor < Len(message)
      /\ hops \in Nat /\ hops < MAX_HOPS /\ Octet \in 1 .. 191
      /\ Inside(message, cursor + 1, cursor + 1 + Octet)
      /\ InName /\ MAX_HOPS \in Nat
  BY HopsAssumption DEF IInv, TypeOK, Label, TakesTurn
<1>2. PICK turns : turns = MAX_HOPS - hops - 1
  OBVIOUS
<1>3. turns \in Nat /\ turns < MAX_HOPS /\ turns + 1 = MAX_HOPS - hops
  BY <1>1, <1>2
<1>4. PICK ahead, rest, label :
          /\ ahead = NameAt(message, MAX_HOPS - hops, cursor)
          /\ rest = NameAt(message, turns, cursor')
          /\ label = Lossy(Slice(message, cursor + 1, cursor'))
  OBVIOUS
<1>5. /\ MAX_HOPS - hops' = turns /\ message' = message
      /\ cursor' = cursor + 1 + Octet
      /\ name' = Longer(name, label)
      /\ at' = at /\ pos' = pos /\ hostname' = hostname /\ jumped' = jumped
      /\ end_pos' = end_pos
  BY <1>1, <1>2, <1>4 DEF Label, Longer, foundVars
<1>6. ahead = IF rest = None THEN None
              ELSE [text |-> Joined(label, rest.text), behind |-> rest.behind]
  BY <1>1, <1>3, <1>4, <1>5, NameTurn DEF Octet
<1>7. label \in Seq(Nat) /\ label # <<>>
  <2>1. PICK bytes : bytes = Slice(message, cursor + 1, cursor')
    OBVIOUS
  <2>2. bytes \in Buffer /\ Len(bytes) = Octet
    <3>1. PICK from, to : from = cursor + 1 /\ to = cursor + 1 + Octet
      OBVIOUS
    <3>2. from \in Nat /\ to \in Nat /\ to - from = Octet /\ Inside(message, from, to)
      BY <1>1, <3>1
    <3>3. bytes = Slice(message, from, to)
      BY <1>5, <2>1, <3>1
    <3>4. QED
      BY <1>1, <3>2, <3>3, SliceInside
  <2>3. bytes # <<>>
    BY <1>1, <2>2
  <2>4. QED
    BY <1>4, <2>1, <2>2, <2>3 DEF LossyKeepsText
<1>8. rest \in Readings \cup {None}
  <2>1. turns \in 0 .. MAX_HOPS /\ cursor' \in Nat
    BY <1>1, <1>3, <1>5
  <2>2. QED
    BY <1>1, <1>4, <2>1, NameIsReading
<1>9. ahead = None <=> rest = None
  <2>1. rest # None =>
           [text |-> Joined(label, rest.text), behind |-> rest.behind] \in Readings
    BY <1>7, <1>8, JoinedText DEF Readings
  <2>2. QED
    BY <1>6, <2>1, NoneAssumption DEF Readings
<1>10. PICK whole : whole = WholeName(message, StartOfName)
  OBVIOUS
<1>11. whole = WholeName(message', StartOfName') /\ InName'
  BY <1>1, <1>5, <1>10 DEF StartOfName, InName
<1>12. /\ name \in Seq(Nat)
       /\ ahead = None <=> whole = None
       /\ whole # None =>
             /\ whole.text = Joined(name, ahead.text)
             /\ whole.behind = IF jumped THEN end_pos ELSE ahead.behind
  BY <1>1, <1>4, <1>10 DEF NameSoFar
<1>13. name' \in Seq(Nat)
  BY <1>5, <1>7, <1>12, EmptyText, JoinedLabel
<1>14. ASSUME whole # None
       PROVE  /\ whole.text = Joined(name', rest.text)
              /\ whole.behind = IF jumped' THEN end_pos' ELSE rest.behind
  <2>1. rest # None /\ rest.text \in Seq(Nat)
    BY <1>8, <1>9, <1>12, <1>14 DEF Readings
  <2>2. ahead.text = Joined(label, rest.text) /\ ahead.behind = rest.behind
    BY <1>6, <2>1
  <2>3. Joined(name, Joined(label, rest.text)) = Joined(Longer(name, label), rest.text)
    BY <1>7, <1>12, <2>1, JoinedLabel
  <2>4. QED
    BY <1>5, <1>12, <1>14, <2>2, <2>3
<1>15. rest = NameAt(message', MAX_HOPS - hops', cursor')
  BY <1>4, <1>5
<1>16. at' \in {"query", "asked"} => hostname' = None
  BY <1>5 DEF NameSoFar
<1>17. QED
  BY <1>9, <1>11, <1>12, <1>13, <1>14, <1>15, <1>16 DEF NameSoFar

(* Every step keeps what is known of a name that is read.  In a name, it is   *)
(* read on, or over.                                                          *)
LEMMA StepSoFar ==
    ASSUME LossyKeepsText, IInv, NameSoFar, Next
    PROVE  NameSoFar'
<1>1. CASE Read \/ Skip
  <2>1. UNCHANGED parserVars
    BY <1>1 DEF Read, Skip
  <2>2. QED
    BY <2>1 DEF NameSoFar, InName, StartOfName, parserVars, nameVars, foundVars
<1>2. CASE Take
  <2>1. hostname' = None /\ at' = ParserFor(segment')
    BY <1>2 DEF Take, Start
  <2>2. at' \in {"query", "response", "hello", "found"}
    BY <2>1 DEF ParserFor
  <2>3. QED
    BY <2>1, <2>2 DEF NameSoFar, InName
<1>3. CASE Told
  BY <1>3, ElsewhereSoFar DEF Told
<1>4. CASE Parse
  <2>1. ParserNext(segment.payload)
    BY <1>4 DEF Parse
  <2>2. CASE ReadQuery
    <3>1. hostname' = hostname /\ hostname = None
      BY <2>2 DEF ReadQuery, foundVars, NameSoFar
    <3>2. CASE at' = "found"
      BY <3>2, ElsewhereSoFar
    <3>3. CASE at' # "found"
      <4>1. at' = "asked" /\ StartName(12)
        BY <2>2, <3>3 DEF ReadQuery
      <4>2. StartOfName' = 12
        BY <4>1 DEF StartOfName
      <4>3. QED
        BY <3>1, <4>1, <4>2, StartSoFar
    <3>4. QED
      BY <3>2, <3>3
  <2>3. CASE NextItem
    <3>1. hostname' = hostname /\ pos' = pos
      BY <2>3 DEF NextItem, foundVars
    <3>2. CASE at' = "found"
      BY <3>2, ElsewhereSoFar
    <3>3. CASE at' # "found"
      <4>1. at' = "name" /\ StartName(pos)
        BY <2>3, <3>3 DEF NextItem
      <4>2. StartOfName' = pos
        BY <3>1, <4>1 DEF StartOfName
      <4>3. QED
        BY <3>1, <4>1, <4>2, StartSoFar
    <3>4. QED
      BY <3>2, <3>3
  <2>4. CASE Jump
    BY <2>4, JumpSoFar
  <2>5. CASE Label
    BY <2>5, LabelSoFar
  <2>6. CASE NameFails \/ NameEnds
    BY <2>6, ElsewhereSoFar DEF NameFails, NameEnds
  <2>7. CASE ReadHeader \/ ItemFails \/ ReadQuestion \/ ReadAnswer
    BY <2>7, ElsewhereSoFar DEF ReadHeader, ItemFails, ReadQuestion, ReadAnswer
  <2>8. CASE \/ ReadHello \/ SkipExtension \/ EnterList \/ TakeName \/ SkipName
             \/ LeaveList \/ TryHttp(segment.payload)
    BY <2>8, ElsewhereSoFar
    DEF ReadHello, SkipExtension, EnterList, TakeName, SkipName, LeaveList, TryHttp
  <2>9. QED
    BY <2>1, <2>2, <2>3, <2>4, <2>5, <2>6, <2>7, <2>8 DEF ParserNext
<1>5. QED
  BY <1>1, <1>2, <1>3, <1>4 DEF Next

(* A name that ends is what stands there. *)
LEMMA EndedName ==
    ASSUME IInv, NameSoFar, NameEnds,
           NEW whole, whole = WholeName(message, StartOfName)
    PROVE  whole # None /\ name = whole.text /\ end_pos' = whole.behind
<1>1. /\ message \in Buffer /\ cursor \in Nat /\ cursor < Len(message)
      /\ hops \in Nat /\ hops < MAX_HOPS /\ Octet = 0 /\ InName /\ MAX_HOPS \in Nat
  BY HopsAssumption DEF IInv, TypeOK, NameEnds, TakesTurn
<1>2. PICK turns : turns = MAX_HOPS - hops - 1
  OBVIOUS
<1>3. turns \in Nat /\ turns < MAX_HOPS /\ turns + 1 = MAX_HOPS - hops
  BY <1>1, <1>2
<1>4. PICK ahead : ahead = NameAt(message, MAX_HOPS - hops, cursor)
  OBVIOUS
<1>5. ahead = [text |-> <<>>, behind |-> cursor + 1]
  BY ZenonT(30), <1>1, <1>3, <1>4, LastTurn DEF Octet
<1>6. ahead # None
  <2>1. [text |-> <<>>, behind |-> cursor + 1] \in Readings
    BY <1>1, EmptyText DEF Readings
  <2>2. QED
    BY <1>5, <2>1, NoneAssumption DEF Readings
<1>7. /\ name \in Seq(Nat)
      /\ whole # None
      /\ whole.text = Joined(name, ahead.text)
      /\ whole.behind = IF jumped THEN end_pos ELSE ahead.behind
  BY <1>1, <1>4, <1>6 DEF NameSoFar
<1>8. Joined(name, <<>>) = name
  BY DEF Joined
<1>9. end_pos' = IF jumped THEN end_pos ELSE cursor + 1
  BY DEF NameEnds
<1>10. QED
  BY <1>5, <1>7, <1>8, <1>9

(* Where read_dns_name gives up there is no name, or none of so few turns. *)
LEMMA FailedName ==
    ASSUME IInv, NameSoFar, NameFails
    PROVE  WholeName(message, StartOfName) = None
<1>1. /\ message \in Buffer /\ cursor \in Nat /\ Len(message) \in Nat
      /\ hops \in Nat /\ hops <= MAX_HOPS /\ InName /\ MAX_HOPS \in Nat
  BY HopsAssumption DEF IInv, TypeOK, NameFails, Buffer
<1>2. NameAt(message, MAX_HOPS - hops, cursor) = None
  <2>1. CASE hops = MAX_HOPS \/ cursor >= Len(message)
    <3>1. MAX_HOPS - hops \in 0 .. MAX_HOPS /\ (hops = MAX_HOPS => MAX_HOPS - hops = 0)
      BY <1>1
    <3>2. QED
      BY <1>1, <2>1, <3>1, NoName
  <2>2. CASE hops < MAX_HOPS /\ cursor < Len(message)
    <3>1. Octet \in Byte
      BY <1>1, <2>2, ByteAt DEF Octet
    <3>2. PICK turns : turns = MAX_HOPS - hops - 1
      OBVIOUS
    <3>3. turns \in Nat /\ turns < MAX_HOPS /\ turns + 1 = MAX_HOPS - hops
      BY <1>1, <2>2, <3>2
    <3>4. PICK here : here = NameAt(message, turns + 1, cursor)
      OBVIOUS
    <3>5. CASE Octet >= 192
      <4>1. cursor + 1 >= Len(message)
        BY <1>1, <2>2, <3>5 DEF NameFails
      <4>2. here = None
        BY <1>1, <2>2, <3>3, <3>4, <3>5, <4>1, BrokenTurn DEF Octet
      <4>3. QED
        BY <3>3, <3>4, <4>2
    <3>6. CASE ~(Octet >= 192)
      <4>1. Octet \in Nat /\ ~Inside(message, cursor + 1, cursor + 1 + Octet)
        BY <1>1, <2>2, <3>1, <3>6, ByteIsNatural DEF NameFails
      <4>2. PICK to : to = cursor + 1 + Octet
        OBVIOUS
      <4>3. to \in Nat /\ to > Len(message)
        BY <1>1, <4>1, <4>2 DEF Inside
      <4>7. Octet = 0 => to <= Len(message)
        BY <1>1, <2>2, <4>2
      <4>8. Octet \in 1 .. 191
        BY <1>1, <3>6, <4>1, <4>3, <4>7
      <4>4. NameAt(message, turns, to) = None
        BY <1>1, <3>3, <4>3, NoName
      <4>5. here = None
        BY <1>1, <2>2, <3>3, <3>4, <4>2, <4>4, <4>8, BrokenTurn DEF Octet
      <4>6. QED
        BY <3>3, <3>4, <4>5
    <3>7. QED
      BY <3>5, <3>6
  <2>3. QED
    BY <1>1, <2>1, <2>2
<1>3. QED
  BY <1>1, <1>2 DEF NameSoFar

(* What the invariant says of a name, for every capture. *)
LEMMA NamesAreReadSoFar ==
    ASSUME LossyKeepsText
    PROVE  Spec => []NameSoFar
<1>1. Init => NameSoFar
  BY DEF Init, ParserInit, NameSoFar, InName
<1>2. IInv /\ NameSoFar /\ [Next]_vars => NameSoFar'
  <2>1. ASSUME NameSoFar, UNCHANGED vars
        PROVE  NameSoFar'
    BY <2>1 DEF NameSoFar, InName, StartOfName, vars, parserVars, nameVars, foundVars
  <2>2. QED
    BY <2>1, StepSoFar
<1>3. QED
  BY <1>1, <1>2, InvariantHolds, PTL DEF Spec

(* read_dns_name, for every message: the name is the one that stands at its   *)
(* place, its labels joined with dots and its pointers followed, and the      *)
(* walk through the message goes on behind it; where the code gives up, no    *)
(* name of at most MAX_HOPS turns stands there.                               *)
THEOREM NamesAreReadRight ==
    ASSUME LossyKeepsText
    PROVE  Spec => NameReadRight
<1> DEFINE Right ==
      /\ at = "name" /\ at' = "item" =>
            /\ WholeName(message, pos) # None
            /\ name' = WholeName(message, pos).text
            /\ pos' = WholeName(message, pos).behind
      /\ at = "asked" /\ at' = "found" =>
            IF WholeName(message, 12) = None THEN hostname' = None
            ELSE hostname' = WholeName(message, 12).text
      /\ at = "name" /\ at' = "found" => WholeName(message, pos) = None
<1>1. ASSUME IInv, NameSoFar, Next
      PROVE  Right
  <2>1. SUFFICES ASSUME InName, at' # at
                 PROVE  Right
    BY DEF InName
  <2>2. NameEnds \/ NameFails
    BY <1>1, <2>1
    DEF Next, Read, Skip, Take, Told, Parse, ParserNext, InName, AtPacket, parserVars,
        Start, ReadQuery, ReadHeader, NextItem, Jump, Label, ItemFails, ReadQuestion,
        ReadAnswer, ReadHello, SkipExtension, EnterList, TakeName, SkipName,
        LeaveList, TryHttp
  <2>3. CASE NameEnds
    <3>1. PICK whole : whole = WholeName(message, StartOfName)
      OBVIOUS
    <3>2. whole # None /\ name = whole.text /\ end_pos' = whole.behind
      BY <1>1, <2>3, <3>1, EndedName
    <3>3. CASE at = "asked"
      <4>1. StartOfName = 12 /\ at' = "found" /\ hostname' = name
        BY <2>3, <3>3 DEF NameEnds, StartOfName
      <4>2. QED
        BY <3>1, <3>2, <3>3, <4>1
    <3>4. CASE at = "name"
      <4>1. StartOfName = pos /\ at' = "item" /\ name' = name /\ pos' = end_pos'
        BY <2>3, <3>4 DEF NameEnds, StartOfName
      <4>2. QED
        BY <3>1, <3>2, <3>4, <4>1
    <3>5. QED
      BY <2>1, <3>3, <3>4 DEF InName
  <2>4. CASE NameFails
    <3>1. WholeName(message, StartOfName) = None /\ at' = "found" /\ hostname' = hostname
      BY <1>1, <2>4, FailedName DEF NameFails, foundVars
    <3>2. at = "asked" => hostname = None
      BY <1>1 DEF NameSoFar
    <3>3. QED
      BY <3>1, <3>2 DEF StartOfName
  <2>5. QED
    BY <2>2, <2>3, <2>4
<1>2. IInv /\ NameSoFar /\ [Next]_vars => [Right]_vars
  BY <1>1
<1>3. QED
  BY <1>2, InvariantHolds, NamesAreReadSoFar, PTL DEF Spec, NameReadRight

(* There is a Lossy as the theorem asks for: one that turns every byte that   *)
(* is not ASCII into a replacement character.                                 *)
LEMMA BytewiseKeepsText ==
    ASSUME \A bytes \in Buffer :
              Lossy(bytes) = [i \in 1 .. Len(bytes) |->
                                 IF bytes[i] < 128 THEN bytes[i] ELSE 65533]
    PROVE  LossyKeepsText
<1>1. SUFFICES ASSUME NEW bytes \in Buffer
               PROVE  Lossy(bytes) \in Seq(Nat) /\ (bytes # <<>> => Lossy(bytes) # <<>>)
  BY DEF LossyKeepsText
<1>2. Len(bytes) \in Nat /\ \A i \in 1 .. Len(bytes) : bytes[i] \in Nat
  <2>1. Len(bytes) \in Nat /\ \A i \in 1 .. Len(bytes) : bytes[i] \in Byte
    BY DEF Buffer
  <2>2. QED
    BY <2>1, ByteIsNatural
<1>3. Lossy(bytes) \in Seq(Nat) /\ Len(Lossy(bytes)) = Len(bytes)
  BY <1>2
<1>4. bytes # <<>> => Len(bytes) # 0
  BY DEF Buffer
<1>5. QED
  BY <1>3, <1>4

-----------------------------------------------------------------------------
(***************************************************************************)
(* Records                                                                 *)
(***************************************************************************)

\* f gives the ends of the first n records.
EndsUpTo(f, n, written) ==
    f = [k \in 0 .. n |-> IF k = 0 THEN 24 ELSE f[k - 1] + 16 + Len(written[k].data)]

(* There is such a function for every n. *)
LEMMA EndsExist ==
    ASSUME NEW written, NEW m \in Nat
    PROVE  \E f : EndsUpTo(f, m, written)
<1> DEFINE S == {n \in Nat : \E f : EndsUpTo(f, n, written)}
<1>1. 0 \in S
  <2>1. EndsUpTo([k \in 0 .. 0 |-> 24], 0, written)
    BY DEF EndsUpTo
  <2>2. QED
    BY <2>1
<1>2. ASSUME NEW n \in Nat, n \in S
      PROVE  n + 1 \in S
  <2>1. PICK f : EndsUpTo(f, n, written)
    BY <1>2
  <2> DEFINE g == [k \in 0 .. n + 1 |->
                      IF k <= n THEN f[k] ELSE f[n] + 16 + Len(written[n + 1].data)]
  <2>2. \A k \in 0 .. n + 1 :
            g[k] = IF k = 0 THEN 24 ELSE g[k - 1] + 16 + Len(written[k].data)
    <3>1. SUFFICES ASSUME NEW k \in 0 .. n + 1
                   PROVE  g[k] = IF k = 0 THEN 24
                                 ELSE g[k - 1] + 16 + Len(written[k].data)
      OBVIOUS
    <3>2. CASE k = 0
      BY <2>1, <3>2 DEF EndsUpTo
    <3>3. CASE k \in 1 .. n
      BY <2>1, <3>3 DEF EndsUpTo
    <3>4. CASE k = n + 1
      BY <3>4
    <3>5. QED
      BY <3>2, <3>3, <3>4
  <2>3. EndsUpTo(g, n + 1, written)
    BY <2>2 DEF EndsUpTo
  <2>4. QED
    BY <2>3
<1>3. QED
  <2>1. Nat \subseteq S
    <3> HIDE DEF S
    <3> QED BY <1>1, <1>2, SetInduction
  <2>2. QED
    BY <2>1

Packet == [ts : Nat, frac : Nat, data : Buffer]

(* The first record starts behind the header, each other one behind the last. *)
LEMMA EndsOfRecords ==
    ASSUME NEW written \in Seq(Packet)
    PROVE  /\ RecordEnds(written)[0] = 24
           /\ \A k \in 1 .. Len(written) :
                 RecordEnds(written)[k]
                    = RecordEnds(written)[k - 1] + 16 + Len(written[k].data)
<1>1. RecordEnds(written) = CHOOSE f : EndsUpTo(f, Len(written), written)
  BY DEF RecordEnds, EndsUpTo
<1>2. Len(written) \in Nat
  OBVIOUS
<1>3. EndsUpTo(RecordEnds(written), Len(written), written)
  BY <1>1, <1>2, EndsExist
<1>4. QED
  BY <1>2, <1>3 DEF EndsUpTo

(* They are numbers. *)
LEMMA EndsNatural ==
    ASSUME NEW written \in Seq(Packet)
    PROVE  \A k \in 0 .. Len(written) : RecordEnds(written)[k] \in Nat
<1> DEFINE S == {n \in Nat : n <= Len(written) => RecordEnds(written)[n] \in Nat}
<1>1. 0 \in S
  BY EndsOfRecords
<1>2. ASSUME NEW n \in Nat, n \in S
      PROVE  n + 1 \in S
  <2>1. SUFFICES ASSUME n + 1 <= Len(written)
                 PROVE  RecordEnds(written)[n + 1] \in Nat
    OBVIOUS
  <2>2. n + 1 \in 1 .. Len(written) /\ n + 1 - 1 = n
    BY <2>1
  <2>3. RecordEnds(written)[n + 1]
          = RecordEnds(written)[n] + 16 + Len(written[n + 1].data)
    BY <2>2, EndsOfRecords
  <2>4. Len(written[n + 1].data) \in Nat
    BY <2>2 DEF Packet, Buffer
  <2>5. RecordEnds(written)[n] \in Nat
    BY <1>2, <2>1
  <2>6. QED
    BY <2>3, <2>4, <2>5
<1>3. Nat \subseteq S
  <2> HIDE DEF S
  <2> QED BY <1>1, <1>2, SetInduction
<1>4. QED
  BY <1>3

Written == capture.truth.written

\* The i-th packet that was read is the i-th that was written.
AsWritten(i) ==
    /\ raw[i].data = Written[i].data
    /\ \/ raw[i].ts = Written[i].ts
       \/ nano /\ raw[i].ts = Written[i].ts + 1

\* The reader stands behind the packets that it has read, which are the first of
\* those that were written.
RecordsSoFar ==
    /\ capture \in Captures
    /\ reading = "open" => raw = <<>>
    /\ reading = "records" =>
          /\ Len(file) >= 24
          /\ big_endian = ~TakenAsLittle
          /\ nano = IF TakenAsLittle THEN LittleEndian(file, 0) = MAGIC_NANO_LE
                                     ELSE BigEndian(file, 0) = MAGIC_NANO_BE
          /\ Len(raw) <= Len(Written)
          /\ offset = RecordEnds(Written)[Len(raw)]
          /\ \A i \in 1 .. Len(raw) : AsWritten(i)
    /\ WholePacketsRead

(* A fraction of a second, rounded as an f64 is, is at most one second. *)
LEMMA LessThanTwo ==
    ASSUME NEW x \in Nat, NEW unit \in Nat, NEW half \in Nat, half <= unit, x < unit
    PROVE  (x + half) \div unit \in {0, 1}
<1>1. PICK q : q = (x + half) \div unit
  OBVIOUS
<1>2. x + half \in Nat /\ unit > 0 /\ x + half < 2 * unit
  OBVIOUS
<1>3. q \in Nat
  BY <1>1, <1>2, Quotient
<1>4. unit * q <= x + half
  BY <1>1, <1>2
<1>5. ~(q >= 2)
  BY <1>2, <1>3, <1>4
<1>6. QED
  BY <1>1, <1>3, <1>5

(* A fraction of a second is less than one. *)
LEMMA LessThanOne ==
    ASSUME NEW x \in Nat, NEW unit \in Nat, x < unit
    PROVE  x \div unit = 0
OBVIOUS

(* What stands in a capture where the record of its k-th packet is. *)
LEMMA HeldRecord ==
    ASSUME HoldsRecords(capture), Len(file) >= 24, NEW k \in 1 .. Len(Written)
    PROVE  HoldsRecord(file, RecordEnds(Written)[k - 1], RecordEnds(Written)[k],
                       Written[k])
BY DEF HoldsRecords, Written, file

(* What the record at the reader's place states, where the file holds its     *)
(* sixteen bytes.                                                             *)
LEMMA StatedRecord ==
    ASSUME IInv, RecordsSoFar, HoldsRecords(capture), reading = "records",
           offset + 16 <= Len(file),
           NEW k \in Nat, k = Len(raw) + 1
    PROVE  /\ k \in 1 .. Len(Written)
           /\ Written \in Seq(Packet)
           /\ InclLen = Len(Written[k].data)
           /\ RecordEnds(Written)[k] = offset + 16 + InclLen
           /\ Seconds = Written[k].ts \/ (nano /\ Seconds = Written[k].ts + 1)
<1>1. /\ Written \in Seq(Packet) /\ Len(file) <= RecordEnds(Written)[Len(Written)]
      /\ offset = RecordEnds(Written)[k - 1] /\ Len(raw) \in Nat /\ k - 1 = Len(raw)
      /\ Len(raw) <= Len(Written) /\ Len(file) \in Nat /\ offset \in Nat
  BY DEF RecordsSoFar, HoldsRecords, Written, file, Packet, IInv, TypeOK, ReaderTypeOK,
         Buffer
<1>2. k \in 1 .. Len(Written)
  <2>1. Len(Written) \in Nat
    BY <1>1
  <2>2. CASE Len(raw) = Len(Written)
    BY <1>1, <2>2
  <2>3. QED
    BY <1>1, <2>1, <2>2
<1>3. Written[k] \in Packet
  BY <1>1, <1>2
<1>4. \A i : Ru32(i) = U32(IF TakenAsLittle THEN LittleEndian(file, i)
                                            ELSE BigEndian(file, i))
  BY DEF Ru32, RecordsSoFar
<1>5. /\ Written[k].frac < IF nano THEN 1000 * 1000 * 1000 ELSE 1000 * 1000
      /\ Ru32(offset) = Written[k].ts
      /\ Ru32(offset + 4) = Written[k].frac
      /\ Ru32(offset + 8) = Len(Written[k].data)
  <2>1. Len(file) >= 24 /\ nano = InNanos(file)
    BY DEF RecordsSoFar, InNanos, InLittle, TakenAsLittle
  <2>2. HoldsRecord(file, offset, RecordEnds(Written)[k], Written[k])
    BY <1>1, <1>2, <2>1, HeldRecord
  <2>3. \A i : Ru32(i) = StatedWord(file, i)
    BY <1>4 DEF TakenAsLittle, StatedWord, InLittle
  <2>4. QED
    BY <2>1, <2>2, <2>3 DEF HoldsRecord
<1>6. RecordEnds(Written)[k] = offset + 16 + InclLen
  BY <1>1, <1>2, <1>5, EndsOfRecords DEF InclLen
<1>7. Seconds = Written[k].ts \/ (nano /\ Seconds = Written[k].ts + 1)
  <2> DEFINE million == 1000 * 1000
             billion == 1000 * 1000 * 1000
  <2>1. PICK sec, frac : sec = Written[k].ts /\ frac = Written[k].frac
    OBVIOUS
  <2>2. sec \in Nat /\ frac \in Nat
    BY <1>3, <2>1 DEF Packet
  <2>3. Seconds = IF nano THEN sec + (frac + HALF_SPACING) \div billion
                          ELSE sec + frac \div million
    BY <1>5, <2>1 DEF Seconds
  <2>4. /\ million \in Nat /\ billion \in Nat /\ HALF_SPACING \in Nat
        /\ HALF_SPACING <= billion
    BY DEF HALF_SPACING
  <2>5. frac < IF nano THEN billion ELSE million
    BY <1>5, <2>1
  <2> HIDE DEF million, billion
  <2>6. CASE nano
    <3>1. PICK q : q = (frac + HALF_SPACING) \div billion
      OBVIOUS
    <3>2. q \in {0, 1}
      BY <2>2, <2>4, <2>5, <2>6, <3>1, LessThanTwo
    <3>3. Seconds = sec + q
      BY <2>3, <2>6, <3>1
    <3>4. Seconds = sec \/ Seconds = sec + 1
      BY <2>2, <3>2, <3>3
    <3>5. QED
      BY <2>1, <2>6, <3>4
  <2>7. CASE ~nano
    <3>1. PICK q : q = frac \div million
      OBVIOUS
    <3>2. q = 0
      BY <2>2, <2>4, <2>5, <2>7, <3>1, LessThanOne
    <3>3. Seconds = sec + q
      BY <2>3, <2>7, <3>1
    <3>4. QED
      BY <2>1, <2>2, <3>2, <3>3
  <2>8. QED
    BY <2>6, <2>7
<1>8. QED
  BY <1>1, <1>2, <1>5, <1>6, <1>7 DEF InclLen

(* The reader has the next packet when its record is whole. *)
LEMMA ReadRecordSoFar ==
    ASSUME IInv, RecordsSoFar, HoldsRecords(capture), ReadRecord
    PROVE  RecordsSoFar'
<1>1. PICK k \in Nat : k = Len(raw) + 1
  BY DEF IInv, TypeOK, ReaderTypeOK
<1>2. /\ reading = "records" /\ offset + 16 <= Len(file)
      /\ offset + 16 + InclLen <= Len(file)
  BY DEF ReadRecord, RecordIsWhole
<1>3. /\ k \in 1 .. Len(Written) /\ Written \in Seq(Packet)
      /\ RecordEnds(Written)[k] = offset + 16 + InclLen
      /\ Seconds = Written[k].ts \/ (nano /\ Seconds = Written[k].ts + 1)
  BY <1>1, <1>2, StatedRecord
<1>4. offset = RecordEnds(Written)[k - 1]
  BY <1>1, <1>2 DEF RecordsSoFar, IInv, TypeOK, ReaderTypeOK
<1>5. Slice(file, offset + 16, offset + 16 + InclLen) = Written[k].data
  <2>1. Len(file) >= 24
    BY <1>2 DEF RecordsSoFar
  <2>2. HoldsRecord(file, offset, offset + 16 + InclLen, Written[k])
    BY <1>3, <1>4, <2>1, HeldRecord
  <2>3. QED
    BY <1>2, <2>2 DEF HoldsRecord
<1>6. PICK record : record = [ts |-> Seconds, data |-> Written[k].data]
  OBVIOUS
<1>7. /\ raw' = Append(raw, record) /\ offset' = RecordEnds(Written)[k]
      /\ UNCHANGED <<capture, reading, big_endian, nano, file, Written>>
  BY <1>3, <1>5, <1>6 DEF ReadRecord, file, Written
<1>8. /\ Len(raw') = k /\ raw'[k] = record
      /\ \A i \in 1 .. k - 1 : raw'[i] = raw[i]
  BY <1>1, <1>7 DEF IInv, TypeOK, ReaderTypeOK
<1>9. \A i \in 1 .. k : AsWritten(i)'
  <2>1. SUFFICES ASSUME NEW i \in 1 .. k
                 PROVE  AsWritten(i)'
    OBVIOUS
  <2>2. CASE i = k
    BY <1>3, <1>6, <1>7, <1>8, <2>2 DEF AsWritten
  <2>3. CASE i # k
    <3>1. i \in 1 .. k - 1 /\ i \in 1 .. Len(raw)
      BY <1>1, <2>3 DEF IInv, TypeOK, ReaderTypeOK
    <3>2. AsWritten(i)
      BY <1>2, <3>1 DEF RecordsSoFar
    <3>3. QED
      BY <1>7, <1>8, <3>1, <3>2 DEF AsWritten
  <2>4. QED
    BY <2>2, <2>3
<1>10. reading' = "records"
  BY <1>2, <1>7
<1>11. QED
  BY <1>2, <1>3, <1>7, <1>8, <1>9, <1>10
  DEF RecordsSoFar, WholePacketsRead, TakenAsLittle

(* When the reader stops, it has all the packets that are whole. *)
LEMMA StopSoFar ==
    ASSUME IInv, RecordsSoFar, HoldsRecords(capture), Stop
    PROVE  RecordsSoFar'
<1>1. /\ Written \in Seq(Packet) /\ Len(raw) \in Nat /\ Len(raw) <= Len(Written)
      /\ offset = RecordEnds(Written)[Len(raw)] /\ offset <= Len(file)
      /\ Len(file) \in Nat /\ offset \in Nat /\ reading = "records"
      /\ ~RecordIsWhole
  BY DEF RecordsSoFar, HoldsRecords, Written, file, Packet, IInv, TypeOK, ReaderTypeOK,
         Buffer, Stop
<1>2. ASSUME Len(raw) < Len(Written)
      PROVE  RecordEnds(Written)[Len(raw) + 1] > Len(file)
  <2>1. PICK k \in Nat : k = Len(raw) + 1
    BY <1>1
  <2>2. CASE offset + 16 <= Len(file)
    <3>1. /\ RecordEnds(Written)[k] = offset + 16 + InclLen
          /\ InclLen = Len(Written[k].data) /\ k \in 1 .. Len(Written)
      BY <1>1, <2>1, <2>2, StatedRecord
    <3>2. RecordEnds(Written)[k] \in Nat
      BY <1>1, <3>1, EndsNatural
    <3>3. ~(offset + 16 + InclLen <= Len(file))
      BY <1>1, <2>2 DEF RecordIsWhole
    <3>4. QED
      BY <1>1, <2>1, <3>1, <3>2, <3>3
  <2>3. CASE ~(offset + 16 <= Len(file))
    <3>1. k \in 1 .. Len(Written) /\ k - 1 = Len(raw)
      BY <1>1, <1>2, <2>1
    <3>2. RecordEnds(Written)[k] = offset + 16 + Len(Written[k].data)
      BY <1>1, <3>1, EndsOfRecords
    <3>3. Len(Written[k].data) \in Nat
      BY SMTT(30), <1>1, <3>1 DEF Packet, Buffer
    <3>4. QED
      BY <1>1, <2>1, <2>3, <3>2, <3>3
  <2>4. QED
    BY <2>2, <2>3
<1>3. UNCHANGED <<capture, nano, raw, file, Written>> /\ reading' = "read"
  BY DEF Stop, file, Written
<1>4. \A i \in 1 .. Len(raw) : AsWritten(i)
  BY <1>1 DEF RecordsSoFar
<1>5. Len(raw) \in 0 .. Len(Written)
  BY <1>1
<1>6. \E k \in 0 .. Len(Written) :
         /\ RecordEnds(Written)[k] <= Len(file)
         /\ k < Len(Written) => RecordEnds(Written)[k + 1] > Len(file)
         /\ Len(raw) = k
         /\ \A i \in 1 .. k :
               /\ raw[i].data = Written[i].data
               /\ \/ raw[i].ts = Written[i].ts
                  \/ nano /\ raw[i].ts = Written[i].ts + 1
  BY <1>1, <1>2, <1>4, <1>5 DEF AsWritten
<1>7. WholePacketsRead'
  BY <1>3, <1>6 DEF WholePacketsRead, Written
<1>8. QED
  BY <1>3, <1>7 DEF RecordsSoFar

(* Every step keeps what is known of the packets that are read. *)
LEMMA StepRecords ==
    ASSUME IInv, RecordsSoFar, HoldsRecords(capture), [Next]_vars
    PROVE  RecordsSoFar'
<1>1. CASE UNCHANGED readerVars
  BY <1>1 DEF RecordsSoFar, readerVars, file, Written, AsWritten, TakenAsLittle,
              WholePacketsRead
<1>2. CASE Refuse
  BY <1>2 DEF Refuse, RecordsSoFar, WholePacketsRead
<1>3. CASE Open
  <2>1. /\ raw' = <<>> /\ UNCHANGED <<capture, file, Written>> /\ offset' = 24
        /\ reading' = "records" /\ Len(file) >= 24
    BY <1>3 DEF Open, RecordsSoFar, file, Written
  <2>2. /\ big_endian' = ~TakenAsLittle
        /\ nano' = IF TakenAsLittle THEN LittleEndian(file, 0) = MAGIC_NANO_LE
                                    ELSE BigEndian(file, 0) = MAGIC_NANO_BE
        /\ TakenAsLittle' = TakenAsLittle
    BY <1>3, <2>1 DEF Open, TakenAsLittle
  <2>3. Written \in Seq(Packet)
    BY DEF HoldsRecords, Written, Packet
  <2>4. Len(raw') = 0 /\ 0 <= Len(Written) /\ RecordEnds(Written)[0] = 24
    BY <2>1, <2>3, EndsOfRecords
  <2>5. \A i \in 1 .. Len(raw') : AsWritten(i)'
    BY <2>4
  <2>6. capture' \in Captures /\ WholePacketsRead'
    BY <2>1 DEF RecordsSoFar, WholePacketsRead
  <2>7. QED
    BY <2>1, <2>2, <2>4, <2>5, <2>6 DEF RecordsSoFar
<1>4. CASE ReadRecord
  BY <1>4, ReadRecordSoFar
<1>5. CASE Stop
  BY <1>5, StopSoFar
<1>6. QED
  BY <1>1, <1>2, <1>3, <1>4, <1>5
  DEF Next, Read, ReaderNext, Skip, Take, Parse, Told, vars

(* parse_pcap, for every capture that is the beginning of a file of packets,  *)
(* however it is cut off: the packets that are whole are read, each as it was *)
(* written and in its second, and no others.                                  *)
THEOREM WholePacketsAreRead ==
    ASSUME \A c \in Captures : HoldsRecords(c)
    PROVE  Spec => []WholePacketsRead
<1>1. Init => RecordsSoFar
  BY DEF Init, ReaderInit, RecordsSoFar, WholePacketsRead
<1>2. IInv /\ RecordsSoFar /\ [Next]_vars => RecordsSoFar'
  BY StepRecords DEF RecordsSoFar
<1>3. RecordsSoFar => WholePacketsRead
  BY DEF RecordsSoFar
<1>4. QED
  BY <1>1, <1>2, <1>3, InvariantHolds, PTL DEF Spec

==============================================================================
