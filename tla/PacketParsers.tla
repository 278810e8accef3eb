---------------------------- MODULE PacketParsers ----------------------------
(***************************************************************************)
(* From the bytes of one packet to what it tells: ingestion/parse.rs.      *)
(*                                                                         *)
(* The headers are read by operators, and each loop of the code (over the  *)
(* bytes of a DNS name, over the records of a response, over the           *)
(* extensions of a ClientHello and over its server names) takes one turn a *)
(* step.                                                                   *)
(***************************************************************************)
EXTENDS Bytes

CONSTANTS
    None,      \* Option::None
    MAX_HOPS,  \* the turns after which read_dns_name gives up: 128
    Lossy(_),  \* String::from_utf8_lossy: the characters
    IsUtf8(_)  \* std::str::from_utf8 succeeds

ASSUME HopsAssumption == MAX_HOPS \in Nat \ {0}

\* None is not a name that was read, with the place behind it.
ASSUME NoneAssumption == None \notin [text : Seq(Nat), behind : Nat]

VARIABLES
    at,              \* where the parser stands
    message,         \* the slice it reads: buf, payload or record
    pos,             \* its place in the message
    cursor,          \* pos of read_dns_name, or lpos of extract_sni
    name,            \* labels, joined
    jumped,          \* the name has used a pointer
    end_pos,         \* the place behind the name
    hops,            \* the turns that the name has taken
    questions,       \* the questions that are left
    answers,         \* the answers that are left
    extensions_end,  \* where the extensions end
    hostname, url,   \* what was found; None at first
    resolved         \* the names and addresses of a response

nameVars == <<cursor, name, jumped, end_pos, hops>>
foundVars == <<hostname, url, resolved>>
parserVars == <<at, message, pos, nameVars, questions, answers, extensions_end,
                foundVars>>

-----------------------------------------------------------------------------
(***************************************************************************)
(* Headers                                                                 *)
(***************************************************************************)

LINKTYPE_ETHERNET == 1
LINKTYPE_RAW == 101
VLAN == 33024          \* 0x8100
IPV4 == 2048           \* 0x0800
IPV6 == 34525          \* 0x86DD
TCP == 6
UDP == 17
ICMP == 1
ICMP6 == 58

\* Where the IP header of an Ethernet frame starts.
IpOffset(frame) == IF U16(frame, 12) = VLAN THEN 18 ELSE 14

FrameHoldsIp(frame) ==
    /\ Len(frame) >= 14
    /\ Len(frame) >= IpOffset(frame)
    /\ U16(frame, IpOffset(frame) - 2) \in {IPV4, IPV6}

\* The bytes that parse_ip_packet gives to parse_ip_header; none if it does not.
Datagram(data, link) ==
    IF link = LINKTYPE_RAW THEN data
    ELSE IF link = LINKTYPE_ETHERNET /\ FrameHoldsIp(data)
         THEN Slice(data, IpOffset(data), Len(data))
         ELSE <<>>

Version(ip) == At(ip, 0) \div 16
HeaderLength(ip) == IF Version(ip) = 4 THEN 4 * (At(ip, 0) % 16) ELSE 40

IpAccepted(ip) ==
    /\ Len(ip) > 0
    /\ \/ Version(ip) = 4 /\ Len(ip) >= 20 /\ HeaderLength(ip) >= 20
       \/ Version(ip) = 6
    /\ Len(ip) >= HeaderLength(ip)

\* Mutant: the length that the header states is not looked at.
IpEndUnclamped(ip) == Len(ip)

\* Mutant: a stated length that falls short of the header is taken as it is.
IpEndFloorless(ip) ==
    AtMostOf(IF Version(ip) = 4 THEN U16(ip, 2) ELSE 40 + U16(ip, 4), Len(ip))

\* Where the transport segment ends: padding is cut off, and a length that
\* exceeds the capture, or falls short of the header, is put right.
IpEnd(ip) ==
    Clamp(IF Version(ip) = 4 THEN U16(ip, 2) ELSE 40 + U16(ip, 4),
          HeaderLength(ip), Len(ip))

\* parse_ip_header
IpPacket(ip) ==
    LET four == Version(ip) = 4 IN
    [src      |-> IF four THEN Slice(ip, 12, 16) ELSE Slice(ip, 8, 24),
     dst      |-> IF four THEN Slice(ip, 16, 20) ELSE Slice(ip, 24, 40),
     protocol |-> IF four THEN At(ip, 9) ELSE At(ip, 6),
     data     |-> Slice(ip, HeaderLength(ip), IpEnd(ip))]

\* How long the transport header is; what has no ports has none.
L4Length(protocol, data) ==
    IF protocol = TCP THEN 4 * (At(data, 12) \div 16)
    ELSE IF protocol = UDP THEN 8 ELSE 0

L4Accepted(protocol, data) ==
    /\ protocol = TCP => Len(data) >= 20 /\ L4Length(protocol, data) >= 20
    /\ Len(data) >= L4Length(protocol, data)

\* parse_l4
L4Info(protocol, data) ==
    LET ports == protocol \in {TCP, UDP} IN
    [src_port |-> IF ports THEN U16(data, 0) ELSE 0,
     dst_port |-> IF ports THEN U16(data, 2) ELSE 0,
     protocol |-> IF protocol = ICMP6 THEN ICMP ELSE protocol,
     payload  |-> Slice(data, L4Length(protocol, data), Len(data))]

\* The packet has endpoints and a payload.
Parses(data, link) ==
    LET ip == Datagram(data, link) IN
    IpAccepted(ip) /\ L4Accepted(IpPacket(ip).protocol, IpPacket(ip).data)

Segment(data, link) ==
    LET ip == IpPacket(Datagram(data, link))
        l4 == L4Info(ip.protocol, ip.data)
    IN  [src |-> <<ip.src, l4.src_port>>, dst |-> <<ip.dst, l4.dst_port>>,
         protocol |-> l4.protocol, payload |-> l4.payload]

-----------------------------------------------------------------------------
(***************************************************************************)
(* DNS                                                                     *)
(***************************************************************************)

ParserInit ==
    /\ at = "idle"
    /\ message = <<>>
    /\ pos = 0 /\ cursor = 0 /\ end_pos = 0 /\ hops = 0
    /\ name = <<>>
    /\ jumped = FALSE
    /\ questions = 0 /\ answers = 0
    /\ extensions_end = 0
    /\ hostname = None /\ url = None
    /\ resolved = <<>>

\* The calls of ingest_pcap_bytes for one segment.
ParserFor(segment) ==
    IF segment.protocol = UDP /\ segment.dst[2] = 53 THEN "query"
    ELSE IF segment.protocol = UDP /\ segment.src[2] = 53 THEN "response"
    ELSE IF segment.protocol = TCP /\ segment.payload # <<>> THEN "hello"
    ELSE "found"

Start(segment) ==
    /\ at = "idle"
    /\ at' = ParserFor(segment)
    /\ message' = segment.payload
    /\ pos' = 0
    /\ hostname' = None /\ url' = None
    /\ resolved' = <<>>
    /\ UNCHANGED <<nameVars, questions, answers, extensions_end>>

\* The call of read_dns_name.
StartName(from) ==
    /\ cursor' = from
    /\ end_pos' = from
    /\ name' = <<>>
    /\ jumped' = FALSE
    /\ hops' = 0

\* parse_dns_query_name
ReadQuery ==
    /\ at = "query"
    /\ IF Len(message) < 12 \/ U16(message, 4) = 0
       THEN at' = "found" /\ UNCHANGED nameVars
       ELSE at' = "asked" /\ StartName(12)
    /\ UNCHANGED <<message, pos, questions, answers, extensions_end, foundVars>>

\* parse_dns_response
ReadHeader ==
    /\ at = "response"
    /\ IF Len(message) < 12
       THEN at' = "found" /\ UNCHANGED <<pos, questions, answers>>
       ELSE /\ at' = "items"
            /\ pos' = 12
            /\ questions' = U16(message, 4)
            /\ answers' = U16(message, 6)
    /\ UNCHANGED <<message, nameVars, extensions_end, foundVars>>

NextItem ==
    /\ at = "items"
    /\ IF questions + answers = 0
       THEN at' = "found" /\ UNCHANGED nameVars
       ELSE at' = "name" /\ StartName(pos)
    /\ UNCHANGED <<message, pos, questions, answers, extensions_end, foundVars>>

InName == at \in {"asked", "name"}

\* The byte that the name is read at.
Octet == At(message, cursor)

\* read_dns_name returns None, and with it the function that called it.
NameFails ==
    /\ InName
    /\ \/ hops = MAX_HOPS
       \/ cursor >= Len(message)
       \/ /\ cursor < Len(message)
          /\ IF Octet >= 192 THEN cursor + 1 >= Len(message)
                             ELSE ~Inside(message, cursor + 1, cursor + 1 + Octet)
    /\ at' = "found"
    /\ UNCHANGED <<message, pos, nameVars, questions, answers, extensions_end,
                   foundVars>>

\* There is a turn left, and a byte to read.
TakesTurn ==
    /\ InName
    /\ hops < MAX_HOPS
    /\ cursor < Len(message)

NameEnds ==
    LET next == IF jumped THEN end_pos ELSE cursor + 1 IN
    /\ TakesTurn
    /\ Octet = 0
    /\ IF at = "asked"
       THEN at' = "found" /\ hostname' = name /\ UNCHANGED pos
       ELSE at' = "item" /\ pos' = next /\ UNCHANGED hostname
    /\ end_pos' = next
    /\ hops' = hops + 1
    /\ UNCHANGED <<message, cursor, name, jumped, questions, answers,
                   extensions_end, url, resolved>>

\* Mutant: every pointer moves the end of the name.
JumpMovesEnd ==
    /\ TakesTurn
    /\ Octet >= 192
    /\ cursor + 1 < Len(message)
    /\ end_pos' = cursor + 2
    /\ jumped' = TRUE
    /\ cursor' = 256 * (Octet % 64) + At(message, cursor + 1)
    /\ hops' = hops + 1
    /\ UNCHANGED <<at, message, pos, name, questions, answers, extensions_end,
                   foundVars>>

\* Mutant: a pointer is not counted.
JumpUncounted ==
    /\ TakesTurn
    /\ Octet >= 192
    /\ cursor + 1 < Len(message)
    /\ end_pos' = IF jumped THEN end_pos ELSE cursor + 2
    /\ jumped' = TRUE
    /\ cursor' = 256 * (Octet % 64) + At(message, cursor + 1)
    /\ UNCHANGED <<at, message, pos, name, hops, questions, answers,
                   extensions_end, foundVars>>

\* A compression pointer.
Jump ==
    /\ TakesTurn
    /\ Octet >= 192
    /\ cursor + 1 < Len(message)
    /\ end_pos' = IF jumped THEN end_pos ELSE cursor + 2
    /\ jumped' = TRUE
    /\ cursor' = 256 * (Octet % 64) + At(message, cursor + 1)
    /\ hops' = hops + 1
    /\ UNCHANGED <<at, message, pos, name, questions, answers, extensions_end,
                   foundVars>>

Label ==
    LET after == cursor + 1 + Octet IN
    /\ TakesTurn
    /\ Octet \in 1 .. 191
    /\ Inside(message, cursor + 1, after)
    /\ name' = (IF name = <<>> THEN <<>> ELSE Append(name, 46))
                   \o Lossy(Slice(message, cursor + 1, after))
    /\ cursor' = after
    /\ hops' = hops + 1
    /\ UNCHANGED <<at, message, pos, jumped, end_pos, questions, answers,
                   extensions_end, foundVars>>

\* The type, the class and, in an answer, the time to live and the length.
FixedPart == IF questions > 0 THEN 4 ELSE 10

RdLength == U16(message, pos + 8)

ItemIsWhole ==
    /\ pos + FixedPart <= Len(message)
    /\ questions = 0 => pos + 10 + RdLength <= Len(message)

ItemFails ==
    /\ at = "item"
    /\ ~ItemIsWhole
    /\ at' = "found"
    /\ UNCHANGED <<message, pos, nameVars, questions, answers, extensions_end,
                   foundVars>>

ReadQuestion ==
    /\ at = "item"
    /\ ItemIsWhole
    /\ questions > 0
    /\ questions' = questions - 1
    /\ pos' = pos + 4
    /\ at' = "items"
    /\ UNCHANGED <<message, nameVars, answers, extensions_end, foundVars>>

IsAddress == <<U16(message, pos), RdLength>> \in {<<1, 4>>, <<28, 16>>}

ReadAnswer ==
    LET after == pos + 10 + RdLength IN
    /\ at = "item"
    /\ ItemIsWhole
    /\ questions = 0
    /\ resolved' = IF IsAddress
                   THEN Append(resolved, [name |-> name,
                            ip |-> Slice(message, pos + 10, after)])
                   ELSE resolved
    /\ answers' = answers - 1
    /\ pos' = after
    /\ at' = "items"
    /\ UNCHANGED <<message, nameVars, questions, extensions_end, hostname, url>>

-----------------------------------------------------------------------------
(***************************************************************************)
(* TLS and HTTP                                                            *)
(***************************************************************************)

HANDSHAKE == 22
CLIENT_HELLO == 1

\* The record of the payload, as far as it was captured.
Record == Slice(message, 5, AtMostOf(5 + U16(message, 3), Len(message)))

\* Where the fields of a ClientHello end: each one starts with its length.
SessionEnd(record) == 39 + At(record, 38)
CiphersEnd(record) == SessionEnd(record) + 2 + U16(record, SessionEnd(record))
MethodsEnd(record) == CiphersEnd(record) + 1 + At(record, CiphersEnd(record))

ReachesExtensions(record) ==
    /\ Len(record) >= 4
    /\ At(record, 0) = CLIENT_HELLO
    /\ 38 < Len(record)
    /\ SessionEnd(record) + 1 < Len(record)
    /\ CiphersEnd(record) < Len(record)
    /\ MethodsEnd(record) + 1 < Len(record)

IsHello ==
    /\ Len(message) >= 5
    /\ At(message, 0) = HANDSHAKE
    /\ ReachesExtensions(Record)

ReadHello ==
    LET first == MethodsEnd(Record) + 2 IN
    /\ at = "hello"
    /\ IsHello
    /\ message' = Record
    /\ pos' = first
    /\ extensions_end' = AtMostOf(first + U16(Record, first - 2), Len(Record))
    /\ at' = "extensions"
    /\ UNCHANGED <<nameVars, questions, answers, foundVars>>

ExtStart == pos + 4

\* Mutant: the extension may end behind the extensions.
ExtEndUnbounded == ExtStart + U16(message, pos + 2)

ExtEnd == AtMostOf(ExtStart + U16(message, pos + 2), extensions_end)

\* The list of server names within the extension.
ListEnd == AtMostOf(2 + U16(message, ExtStart), ExtEnd - ExtStart)

HasExtension == pos + 4 <= extensions_end

NamesServers == U16(message, pos) = 0 /\ ExtEnd - ExtStart >= 5

SkipExtension ==
    /\ at = "extensions"
    /\ HasExtension
    /\ ~NamesServers
    /\ pos' = ExtEnd
    /\ UNCHANGED <<at, message, nameVars, questions, answers, extensions_end,
                   foundVars>>

EnterList ==
    /\ at = "extensions"
    /\ HasExtension
    /\ NamesServers
    /\ cursor' = 2
    /\ at' = "names"
    /\ UNCHANGED <<message, pos, name, jumped, end_pos, hops, questions, answers,
                   extensions_end, foundVars>>

\* Both are offsets in the extension.
NameStart == cursor + 3
NameEnd ==
    AtMostOf(NameStart + U16(message, ExtStart + cursor + 1), ExtEnd - ExtStart)

HasName == NameStart <= ListEnd

\* Mutant: the type of the name is not looked at.
IsHostNameAny == TRUE

IsHostName == At(message, ExtStart + cursor) = 0

TakeName ==
    /\ at = "names"
    /\ HasName
    /\ IsHostName
    /\ hostname' = Lossy(Slice(message, ExtStart + NameStart, ExtStart + NameEnd))
    /\ at' = "found"
    /\ UNCHANGED <<message, pos, nameVars, questions, answers, extensions_end,
                   url, resolved>>

SkipName ==
    /\ at = "names"
    /\ HasName
    /\ ~IsHostName
    /\ cursor' = NameEnd
    /\ UNCHANGED <<at, message, pos, name, jumped, end_pos, hops, questions,
                   answers, extensions_end, foundVars>>

LeaveList ==
    /\ at = "names"
    /\ ~HasName
    /\ pos' = ExtEnd
    /\ at' = "extensions"
    /\ UNCHANGED <<message, nameVars, questions, answers, extensions_end,
                   foundVars>>

CRLF == <<13, 10>>

\* White space in ASCII.  For split_whitespace and trim there is more, of more
\* than one byte each: what is here is right of requests in ASCII.
SPACES == {9, 10, 11, 12, 13, 32}
HTTP_METHODS ==                                     \* GET, POST, PUT, DELETE,
    {<<71, 69, 84>>, <<80, 79, 83, 84>>, <<80, 85, 84>>,
     <<68, 69, 76, 69, 84, 69>>, <<72, 69, 65, 68>>,   \* HEAD, OPTIONS, PATCH
     <<79, 80, 84, 73, 79, 78, 83>>, <<80, 65, 84, 67, 72>>}
HOST == {<<72, 111, 115, 116, 58, 32>>, <<104, 111, 115, 116, 58, 32>>}
SCHEME == <<104, 116, 116, 112, 58, 47, 47>>        \* http://

\* The first of some places, or else the end.
First(places, end) ==
    IF places = {} THEN end
    ELSE CHOOSE i \in places : \A j \in places : i <= j

LineEnd(text, from) ==
    First({i \in from .. Len(text) - 2 : Slice(text, i, i + 2) = CRLF}, Len(text))

WordStart(text, from, to) ==
    First({i \in from .. to - 1 : At(text, i) \notin SPACES}, to)

WordEnd(text, from, to) ==
    First({i \in from .. to - 1 : At(text, i) \in SPACES}, to)

\* Where the text from one place to another ends, trailing spaces aside.
TrimmedEnd(text, from, to) ==
    CHOOSE i \in from .. to :
        /\ i > from => At(text, i - 1) \notin SPACES
        /\ \A j \in i .. to - 1 : At(text, j) \in SPACES

\* The lines after the first one and before the first empty one.
Headers(text) ==
    LET starts == {i \in 2 .. Len(text) : Slice(text, i - 2, i) = CRLF}
        empty  == First({i \in starts : LineEnd(text, i) = i}, Len(text))
    IN  {i \in starts : i < empty}

\* The method and the path: the first words of the request line.
MethodStart(text) == WordStart(text, 0, LineEnd(text, 0))
MethodEnd(text) == WordEnd(text, MethodStart(text), LineEnd(text, 0))
PathStart(text) == WordStart(text, MethodEnd(text), LineEnd(text, 0))
PathEnd(text) == WordEnd(text, PathStart(text), LineEnd(text, 0))

HostHeaders(text) ==
    {i \in Headers(text) : Slice(text, i, AtMostOf(i + 6, LineEnd(text, i))) \in HOST}

IsRequest(text) ==
    /\ IsUtf8(text)
    /\ Slice(text, MethodStart(text), MethodEnd(text)) \in HTTP_METHODS
    /\ PathStart(text) < PathEnd(text)
    /\ HostHeaders(text) # {}

\* extract_http
RequestHost(text) ==
    LET header == First(HostHeaders(text), 0)
        from   == WordStart(text, header + 6, LineEnd(text, header))
    IN  Slice(text, from, TrimmedEnd(text, from, LineEnd(text, header)))

RequestUrl(text) ==
    SCHEME \o RequestHost(text) \o Slice(text, PathStart(text), PathEnd(text))

\* There is no server name: the payload may be an HTTP request.
TryHttp(payload) ==
    /\ \/ at = "hello" /\ ~IsHello
       \/ at = "extensions" /\ ~HasExtension
    /\ IF IsRequest(payload)
       THEN /\ hostname' = Lossy(RequestHost(payload))
            /\ url' = Lossy(RequestUrl(payload))
       ELSE UNCHANGED <<hostname, url>>
    /\ at' = "found"
    /\ UNCHANGED <<message, pos, nameVars, questions, answers, extensions_end,
                   resolved>>

ParserNext(payload) ==
    \/ ReadQuery \/ ReadHeader \/ NextItem
    \/ NameFails \/ NameEnds \/ Jump \/ Label
    \/ ItemFails \/ ReadQuestion \/ ReadAnswer
    \/ ReadHello \/ SkipExtension
    \/ EnterList \/ TakeName \/ SkipName \/ LeaveList
    \/ TryHttp(payload)

=============================================================================
