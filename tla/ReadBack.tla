------------------------------- MODULE ReadBack -------------------------------
(***************************************************************************)
(* What was written, and what Ingestion tells of it.  The truth of a       *)
(* capture is the packets that were sent, as far as they are described,    *)
(* and the ClientHello of which it may hold the beginning.                 *)
(***************************************************************************)
EXTENDS Ingestion, SampleCapture

\* A packet that was sent is described by the frame around its datagram (mac,
\* vlan, padding), the options and the endpoints of that, and what it carries.
Payload(carried) ==
    CASE carried.kind = "query"    -> dns_query(carried.id, carried.name)
      [] carried.kind = "response" -> dns_response(carried.id, carried.name, carried.ip)
      [] carried.kind = "hello"    -> tls_client_hello(carried.sni)
      [] carried.kind = "request"  ->
             http_request(carried.method, carried.path, carried.host)

OverUdp(sent) == sent.carried.kind \in {"query", "response"}
Protocol(sent) == IF OverUdp(sent) THEN UDP ELSE TCP

L4Header(sent) ==
    IF OverUdp(sent)
    THEN udp_header(sent.src[2], sent.dst[2], Len(Payload(sent.carried)))
    ELSE tcp_header(sent.src[2], sent.dst[2], sent.seq)

Transport(sent) == L4Header(sent) \o Payload(sent.carried)

IpHeader(sent) ==
    ipv4_header_with(sent.options, sent.src[1], sent.dst[1], Protocol(sent),
                     Len(Transport(sent)))

Tag(vlan) == IF vlan = None THEN <<>> ELSE Be16(VLAN) \o Be16(vlan)

FrameHeader(sent, link) ==
    IF link = LINKTYPE_RAW THEN <<>> ELSE sent.mac \o Tag(sent.vlan) \o Be16(IPV4)

Frame(sent, link) ==
    FrameHeader(sent, link) \o (IpHeader(sent) \o Transport(sent)) \o sent.padding

\* What it should tell; None if it is not of a link that the parsers know.
Tells(sent, ts) ==
    IF sent = None THEN None
    ELSE LET carried == sent.carried IN
         [src |-> sent.src, dst |-> sent.dst, protocol |-> Protocol(sent),
          payload |-> Payload(carried), ts |-> ts,
          hostname |-> CASE carried.kind = "query"    -> Text(carried.name)
                         [] carried.kind = "response" -> None
                         [] carried.kind = "hello"    -> carried.sni
                         [] carried.kind = "request"  -> carried.host,
          url |-> IF carried.kind = "request"
                  THEN SCHEME \o carried.host \o carried.path ELSE None,
          answers |-> IF carried.kind = "response"
                      THEN <<[name |-> Text(carried.name), ip |-> carried.ip]>>
                      ELSE <<>>]

(***************************************************************************)
(* What bin/gen_sample_pcap.rs writes, the reader and the parsers read     *)
(* back: endpoints, times, payloads without the padding of the frame, and  *)
(* the names, addresses and URLs in them.  So they do behind a VLAN tag    *)
(* and IP options.                                                         *)
(***************************************************************************)
GeneratedIsReadBack ==
    \A i \in DOMAIN packets \cap DOMAIN capture.truth.sent :
        packets[i] = Tells(capture.truth.sent[i], capture.truth.written[i].ts)

Word == 0 .. 65535
IPv4 == [1 .. 4 -> Byte]
Endpoints == IPv4 \X Word

\* The text survives decoding.
Plain(text) == text \in Buffer /\ Lossy(text) = text
Unspaced(text) == Plain(text) /\ \A i \in DOMAIN text : text[i] \notin SPACES

\* read_dns_name takes enough turns for the name.
IsName(labels) ==
    /\ labels \in Seq(Buffer) /\ Len(labels) < MAX_HOPS
    /\ \A i \in DOMAIN labels : Len(labels[i]) \in 1 .. 63 /\ Plain(labels[i])

\* The ports are those that the payload is looked for at.
Carries(sent) ==
    LET carried == sent.carried IN
    \/ /\ carried.kind = "query"
       /\ carried.id \in Word /\ IsName(carried.name)
       /\ sent.dst[2] = 53
    \/ /\ carried.kind = "response"
       /\ carried.id \in Word /\ IsName(carried.name) /\ carried.ip \in IPv4
       /\ sent.src[2] = 53 /\ sent.dst[2] # 53
    \/ carried.kind = "hello" /\ Plain(carried.sni)
    \/ /\ carried.kind = "request"
       /\ carried.method \in HTTP_METHODS
       /\ Unspaced(carried.path) /\ carried.path # <<>>
       /\ Unspaced(carried.host)
       /\ IsUtf8(Payload(carried)) /\ Plain(SCHEME \o carried.host \o carried.path)

\* The bytes are those of the packet.
WrittenAs(sent, link, data) ==
    /\ sent.src \in Endpoints /\ sent.dst \in Endpoints /\ sent.seq \in Nat
    /\ sent.options \in Buffer /\ Len(sent.options) \in {4 * n : n \in 0 .. 10}
    /\ sent.mac \in Buffer /\ Len(sent.mac) = 12
    /\ sent.vlan \in {None} \cup Word
    /\ sent.padding \in Buffer
    /\ Carries(sent)
    /\ data = Frame(sent, link)

\* Of a capture with a header: the packets that were sent are those that were
\* written, and their times are in microseconds.
HoldsSent(c) ==
    LET link == StatedWord(c.bytes, 20)
        sent == c.truth.sent
    IN  Len(c.bytes) >= 24 =>
            \A i \in DOMAIN sent \cap DOMAIN c.truth.written :
                /\ ~InNanos(c.bytes)
                /\ IF link \in {LINKTYPE_ETHERNET, LINKTYPE_RAW}
                   THEN sent[i] # None /\ WrittenAs(sent[i], link, c.truth.written[i].data)
                   ELSE sent[i] = None

\* What extensions are made of: a type, and names or other data.
Names == [kind : Byte, name : Buffer]
Extensions == [type : Word, names : Seq(Names), data : Buffer]

\* The bytes are those of the ClientHello, and of what comes after it; each host
\* name in it is the one that it is for.
WrittenHello(hello) ==
    /\ hello.session \in Buffer /\ hello.after \in Buffer
    /\ hello.extensions \in Seq(Extensions)
    /\ hello.bytes = ClientHello(hello) \o hello.after
    /\ \A i \in DOMAIN hello.extensions :
          hello.extensions[i].type = 0 =>
              \A j \in DOMAIN hello.extensions[i].names :
                  hello.extensions[i].names[j].kind = 0 =>
                      hello.extensions[i].names[j].name = hello.sni

\* What the capture holds of a ClientHello.
HoldsStartOf(packet, hello) ==
    /\ packet.protocol = TCP
    /\ IsPrefix(packet.payload, hello.bytes)

\* A name, or the beginning of one.
BeginningOf(sni) == {Lossy(SubSeq(sni, 1, n)) : n \in 0 .. Len(sni)}

(***************************************************************************)
(* A ClientHello of which the capture holds only the beginning gives no    *)
(* other server than the one that it names, though its name may be cut.    *)
(* An entry of the list that is not a host name is never taken for one.    *)
(***************************************************************************)
CutHelloNoOtherName ==
    LET hello == capture.truth.hello IN
    hello # None =>
        \A i \in DOMAIN packets :
            packets[i] # None /\ HoldsStartOf(packets[i], hello) =>
                packets[i].hostname \in {None} \cup BeginningOf(hello.sni)

=============================================================================
