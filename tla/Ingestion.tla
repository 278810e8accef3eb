------------------------------ MODULE Ingestion ------------------------------
(***************************************************************************)
(* From the bytes of a capture to what its packets tell: the part of       *)
(* ingest_pcap_bytes (ingestion/mod.rs) that FlowAssembly takes for        *)
(* granted.                                                                *)
(*                                                                         *)
(* The capture is read to its end first.  Then its packets are parsed one  *)
(* after the other.                                                        *)
(***************************************************************************)
EXTENDS CaptureReader, PacketParsers

VARIABLES
    next,     \* the index of the packet that is parsed
    segment,  \* its endpoints, protocol and payload
    packets   \* what the packets told; None for one that does not parse

vars == <<readerVars, parserVars, next, segment, packets>>

Nowhere == [src |-> <<<<>>, 0>>, dst |-> <<<<>>, 0>>, protocol |-> 0,
            payload |-> <<>>]

Init ==
    /\ ReaderInit
    /\ ParserInit
    /\ next = 1
    /\ segment = Nowhere
    /\ packets = <<>>

Read == ReaderNext /\ UNCHANGED <<parserVars, next, segment, packets>>

AtPacket ==
    /\ reading = "read"
    /\ at = "idle"
    /\ next <= Len(raw)

\* A packet without a transport segment that the parsers know.
Skip ==
    /\ AtPacket
    /\ ~Parses(raw[next].data, link_type)
    /\ packets' = Append(packets, None)
    /\ next' = next + 1
    /\ UNCHANGED <<readerVars, parserVars, segment>>

Take ==
    /\ AtPacket
    /\ Parses(raw[next].data, link_type)
    /\ segment' = Segment(raw[next].data, link_type)
    /\ Start(segment')
    /\ UNCHANGED <<readerVars, next, packets>>

Parse ==
    /\ ParserNext(segment.payload)
    /\ UNCHANGED <<readerVars, next, segment, packets>>

\* The loop goes on to what FlowAssembly does with the packet.
Told ==
    /\ at = "found"
    /\ packets' = Append(packets,
          [src |-> segment.src, dst |-> segment.dst,
           protocol |-> segment.protocol, payload |-> segment.payload,
           ts |-> raw[next].ts,
           hostname |-> hostname, url |-> url, answers |-> resolved])
    /\ next' = next + 1
    /\ at' = "idle"
    /\ UNCHANGED <<readerVars, message, pos, nameVars, questions, answers,
                   extensions_end, foundVars, segment>>

Next == Read \/ Skip \/ Take \/ Parse \/ Told

Spec == Init /\ [][Next]_vars

-----------------------------------------------------------------------------
(***************************************************************************)
(* Properties                                                              *)
(***************************************************************************)

Steps == {"idle", "query", "asked", "response", "items", "name", "item",
          "hello", "extensions", "names", "found"}

\* The types of what the parsers do not change.
ReaderTypeOK ==
    /\ file \in Buffer
    /\ reading \in {"open", "records", "read", "refused"}
    /\ big_endian \in BOOLEAN
    /\ nano \in BOOLEAN
    /\ link_type \in Nat
    /\ offset \in 0 .. Len(file)
    /\ raw \in Seq([ts : Nat, data : Buffer])
    /\ next \in 1 .. Len(raw) + 1
    /\ segment.payload \in Buffer

(***************************************************************************)
(* The variables keep their types, and the positions stay where the code   *)
(* relies on them to be: that of the capture inside the file, that of the  *)
(* message inside the message.  The place of a name alone may leave it,    *)
(* since a pointer may point anywhere.                                     *)
(***************************************************************************)
TypeOK ==
    /\ ReaderTypeOK
    /\ at \in Steps
    /\ message \in Buffer
    /\ pos \in 0 .. Len(message)
    /\ cursor \in Nat
    /\ jumped \in BOOLEAN
    /\ end_pos \in Nat
    /\ InName => end_pos <= Len(message)
    /\ hops \in 0 .. MAX_HOPS
    /\ questions \in Nat
    /\ answers \in Nat
    /\ extensions_end \in Nat
    /\ at \in {"extensions", "names"} =>
          pos <= extensions_end /\ extensions_end <= Len(message)
    /\ at = "names" =>
          HasExtension /\ NamesServers /\ cursor <= ExtEnd - ExtStart

(***************************************************************************)
(* parse.rs, on untrusted captures: "anything malformed" gives None        *)
(* "rather than panicking".  What the code indexes, or cuts out with       *)
(* bounds that the packet states, lies inside its slice, with the lower    *)
(* bound at or below the upper one: the record in the file, the transport  *)
(* segment in the packet, the payload in the segment, the record of a      *)
(* ClientHello in the payload, an answer's address in the message, an      *)
(* extension in the extensions and a server name in its extension.         *)
(***************************************************************************)
NeverPanics ==
    /\ reading = "records" /\ RecordIsWhole =>
          Inside(file, offset + 16, offset + 16 + InclLen)
    /\ AtPacket =>
          LET ip == Datagram(raw[next].data, link_type)
          IN  IpAccepted(ip) =>
                /\ Inside(ip, HeaderLength(ip), IpEnd(ip))
                /\ L4Accepted(IpPacket(ip).protocol, IpPacket(ip).data) =>
                      Inside(IpPacket(ip).data,
                             L4Length(IpPacket(ip).protocol, IpPacket(ip).data),
                             Len(IpPacket(ip).data))
    /\ at = "hello" /\ IsHello =>
          /\ Inside(message, 5, AtMostOf(5 + U16(message, 3), Len(message)))
          /\ MethodsEnd(Record) + 2 <= Len(Record)
    /\ at = "item" /\ ItemIsWhole /\ questions = 0 =>
          Inside(message, pos + 10, pos + 10 + RdLength)
    /\ at = "extensions" /\ HasExtension =>
          Inside(message, ExtStart, ExtEnd)
    /\ at = "names" =>
          /\ Inside(message, ExtStart, ExtEnd)
          /\ ListEnd <= ExtEnd - ExtStart
          /\ HasName => /\ NameStart <= NameEnd
                        /\ ExtStart + NameEnd <= Len(message)

\* How far the code is from its end: earlier numbers count for more.
Stage ==
    IF at = "idle" THEN 3
    ELSE IF at \in {"query", "response", "hello"} THEN 2
    ELSE IF at = "found" THEN 0 ELSE 1

Items ==
    IF at \in {"items", "name", "item"} THEN questions + answers
    ELSE IF at \in {"extensions", "names"} THEN Len(message) - pos ELSE 0

Place ==
    IF at \in {"items", "extensions"} THEN 2
    ELSE IF at \in {"asked", "name", "names"} THEN 1 ELSE 0

Turns ==
    IF at \in {"asked", "name"} THEN MAX_HOPS - hops
    ELSE IF at = "names" THEN Len(message) - cursor ELSE 0

ReaderStage ==
    IF reading = "open" THEN 2 ELSE IF reading = "records" THEN 1 ELSE 0

Work == <<ReaderStage, Len(file) - offset, Len(raw) + 1 - next,
          Stage, Items, Place, Turns>>

\* Work is smaller afterwards, in the lexicographic order.
WorkShrinks ==
    \E i \in 1 .. 7 :
        /\ Work'[i] < Work[i]
        /\ \A j \in 1 .. i - 1 : Work'[j] = Work[j]

(***************************************************************************)
(* Every loop ends, whatever lengths and pointers the bytes hold: each     *)
(* step makes the work that is left smaller, in the lexicographic order on *)
(* seven natural numbers, which has no infinite descent.                   *)
(***************************************************************************)
BoundedWork == [][(\A i \in 1 .. 7 : Work[i] \in Nat) /\ WorkShrinks]_vars

\* Where the records of these packets end, one after the other, behind the
\* header of the file.
RecordEnds(written) ==
    LET end[k \in 0 .. Len(written)] ==
            IF k = 0 THEN 24 ELSE end[k - 1] + 16 + Len(written[k].data)
    IN  end

\* The words of a capture, in its byte order, and the fractions of a second.
InLittle(bytes) == LittleEndian(bytes, 0) \in {MAGIC_MICRO_LE, MAGIC_NANO_LE}
StatedWord(bytes, i) ==
    U32(IF InLittle(bytes) THEN LittleEndian(bytes, i) ELSE BigEndian(bytes, i))
InNanos(bytes) ==
    IF InLittle(bytes) THEN LittleEndian(bytes, 0) = MAGIC_NANO_LE
                       ELSE BigEndian(bytes, 0) = MAGIC_NANO_BE

\* The record of a packet stands there, as far as the capture goes.
HoldsRecord(bytes, from, to, packet) ==
    /\ packet.frac < IF InNanos(bytes) THEN 1000 * 1000 * 1000 ELSE 1000 * 1000
    /\ from + 16 <= Len(bytes) =>
          /\ StatedWord(bytes, from) = packet.ts
          /\ StatedWord(bytes, from + 4) = packet.frac
          /\ StatedWord(bytes, from + 8) = Len(packet.data)
    /\ to <= Len(bytes) => Slice(bytes, from + 16, to) = packet.data

\* A capture is the beginning of a file with the packets that were written.
HoldsRecords(c) ==
    LET written == c.truth.written
        end     == RecordEnds(written)
    IN  /\ written \in Seq([ts : Nat, frac : Nat, data : Buffer])
        /\ Len(c.bytes) <= end[Len(written)]
        /\ Len(c.bytes) >= 24 =>
              \A k \in 1 .. Len(written) :
                  HoldsRecord(c.bytes, end[k - 1], end[k], written[k])

(***************************************************************************)
(* "Stop gracefully rather than erroring out, so a partially-written pcap  *)
(* still yields whatever was valid": of the packets that were written, the *)
(* reader returns exactly those that the file holds to their end, with the *)
(* second in which they were captured.  (In a capture with nanoseconds it  *)
(* may be the next second.)                                                *)
(***************************************************************************)
WholePacketsRead ==
    reading = "read" =>
        LET written == capture.truth.written
            end     == RecordEnds(written)
        IN  \E k \in 0 .. Len(written) :
                /\ end[k] <= Len(file)
                /\ k < Len(written) => end[k + 1] > Len(file)
                /\ Len(raw) = k
                /\ \A i \in 1 .. k :
                      /\ raw[i].data = written[i].data
                      /\ \/ raw[i].ts = written[i].ts
                         \/ nano /\ raw[i].ts = written[i].ts + 1

-----------------------------------------------------------------------------

\* Two parts of a name, with a dot in between.
Joined(part, rest) ==
    IF part = <<>> THEN rest
    ELSE IF rest = <<>> THEN part ELSE part \o <<46>> \o rest

\* What stands at each place of a message: the text of the name, and the place
\* behind it, where a pointer ends it.  It is told from what stands at each place
\* for those who take one turn less.  Names are made as in RFC 1035, but any octet
\* below 192 is the length of a label, as it is for read_dns_name.
OneMoreTurn(buf, names) ==
    [i \in 0 .. Len(buf) - 1 |->
        LET octet   == At(buf, i)
            pointer == octet >= 192
            to      == IF pointer THEN (octet - 192) * 256 + At(buf, i + 1)
                                  ELSE i + 1 + octet
            rest    == names[to]
        IN  IF octet = 0 THEN [text |-> <<>>, behind |-> i + 1]
            ELSE IF pointer /\ i + 1 >= Len(buf) THEN None
            ELSE IF to >= Len(buf) THEN None
            ELSE IF rest = None THEN None
            ELSE IF pointer THEN [text |-> rest.text, behind |-> i + 2]
            ELSE [text   |-> Joined(Lossy(Slice(buf, i + 1, to)), rest.text),
                  behind |-> rest.behind]]

\* The names that take at most so many turns; None where there is none.
NamesWithin(buf) ==
    LET within[turns \in 0 .. MAX_HOPS] ==
            IF turns = 0 THEN [i \in 0 .. Len(buf) - 1 |-> None]
            ELSE OneMoreTurn(buf, within[turns - 1])
    IN  within

NameAt(buf, turns, place) ==
    IF place < Len(buf) THEN NamesWithin(buf)[turns][place] ELSE None

WholeName(buf, start) == NameAt(buf, MAX_HOPS, start)

(***************************************************************************)
(* read_dns_name gives the name that the message has at that place, and    *)
(* "the offset just past the end of the first (non-pointer) occurrence,    *)
(* so callers can keep walking the message"; it gives up only where there  *)
(* is no name, or none within the hop limit.                               *)
(***************************************************************************)
NameReadRight ==
    [][/\ at = "name" /\ at' = "item" =>
            /\ WholeName(message, pos) # None
            /\ name' = WholeName(message, pos).text
            /\ pos' = WholeName(message, pos).behind
       /\ at = "asked" /\ at' = "found" =>
            IF WholeName(message, 12) = None THEN hostname' = None
            ELSE hostname' = WholeName(message, 12).text
       /\ at = "name" /\ at' = "found" => WholeName(message, pos) = None]_vars

=============================================================================
