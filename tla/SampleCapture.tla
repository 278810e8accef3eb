---------------------------- MODULE SampleCapture ----------------------------
(***************************************************************************)
(* The encoders of bin/gen_sample_pcap.rs, from the payloads out to the    *)
(* capture file.  They are what the reader and the parsers are held        *)
(* against.  A name is a sequence of labels.                               *)
(***************************************************************************)
EXTENDS Naturals, Sequences, SequencesExt

Be16(n) == <<n \div 256, n % 256>>
Be32(n) == <<n \div 16777216, (n \div 65536) % 256>> \o Be16(n % 65536)
Le32(n) == Reverse(Be32(n))
Word32(order, n) == IF order = "little" THEN Le32(n) ELSE Be32(n)
Zeros(n) == [i \in 1 .. n |-> 0]

\* The text of a name.
Text(name) == FlattenSeq([i \in DOMAIN name |->
                  IF i = 1 THEN name[i] ELSE <<46>> \o name[i]])

encode_dns_name(name) ==
    FlattenSeq([i \in DOMAIN name |-> <<Len(name[i])>> \o name[i]]) \o <<0>>

dns_query(id, name) ==
    Be16(id) \o Be16(256) \o Be16(1) \o Zeros(6)
        \o encode_dns_name(name) \o Be16(1) \o Be16(1)

dns_response(id, name, ip) ==
    Be16(id) \o Be16(33152) \o Be16(1) \o Be16(1) \o Zeros(4)
        \o encode_dns_name(name) \o Be16(1) \o Be16(1)
        \o encode_dns_name(name) \o Be16(1) \o Be16(1) \o Be32(60) \o Be16(4) \o ip

Counted16(bytes) == Be16(Len(bytes)) \o bytes

sni_extension(sni) == Be16(0) \o Counted16(Counted16(<<0>> \o Counted16(sni)))

\* The ClientHello with a given session id and given extensions.
hello_with(session, extensions) ==
    LET body      == Be16(771) \o Zeros(32) \o <<Len(session)>> \o session
                         \o Counted16(<<19, 1>>) \o <<1, 0>>
                         \o Counted16(extensions)
        handshake == <<1, 0>> \o Counted16(body)
    IN  <<22>> \o Be16(769) \o Counted16(handshake)

tls_client_hello(sni) == hello_with(<<>>, sni_extension(sni))

\* A ClientHello of any writer: its extensions are lists of server names, each
\* with its kind, or hold other data; something may come after it.
ServerName(entry) == <<entry.kind>> \o Counted16(entry.name)

ExtensionData(extension) ==
    IF extension.type = 0
    THEN Counted16(FlattenSeq([j \in DOMAIN extension.names |->
                                  ServerName(extension.names[j])]))
    ELSE extension.data

Extension(extension) == Be16(extension.type) \o Counted16(ExtensionData(extension))

ClientHello(hello) ==
    hello_with(hello.session,
               FlattenSeq([i \in DOMAIN hello.extensions |->
                              Extension(hello.extensions[i])]))

\* Without the headers that follow the host.
http_request(method, path, host) ==
    method \o <<32>> \o path
        \o <<32, 72, 84, 84, 80, 47, 49, 46, 49, 13, 10>>        \* HTTP/1.1
        \o <<72, 111, 115, 116, 58, 32>> \o host \o <<13, 10, 13, 10>>

eth_header == <<2, 0, 0, 0, 0, 254, 2, 0, 0, 0, 0, 1>> \o Be16(2048)

\* The header of an IPv4 datagram, with options.
ipv4_header_with(options, src, dst, protocol, payload_len) ==
    <<69 + Len(options) \div 4, 0>> \o Be16(20 + Len(options) + payload_len)
        \o Be16(0) \o Be16(16384) \o <<64, protocol>> \o Be16(0)
        \o src \o dst \o options

ipv4_header(src, dst, protocol, payload_len) ==
    ipv4_header_with(<<>>, src, dst, protocol, payload_len)

udp_header(src_port, dst_port, payload_len) ==
    Be16(src_port) \o Be16(dst_port) \o Be16(8 + payload_len) \o Be16(0)

tcp_header(src_port, dst_port, seq) ==
    Be16(src_port) \o Be16(dst_port) \o Be32(seq) \o Be32(0) \o <<80, 24>>
        \o Be16(8192) \o Be16(0) \o Be16(0)

udp_datagram(src, dst, payload) ==
    ipv4_header(src[1], dst[1], 17, 8 + Len(payload))
        \o udp_header(src[2], dst[2], Len(payload)) \o payload

udp_pkt(src, dst, payload) == eth_header \o udp_datagram(src, dst, payload)

tcp_segment(src, dst, seq, payload) ==
    ipv4_header(src[1], dst[1], 6, 20 + Len(payload))
        \o tcp_header(src[2], dst[2], seq) \o payload

tcp_pkt(src, dst, seq, payload) == eth_header \o tcp_segment(src, dst, seq, payload)

base_ts == 1735000000

\* The packets with the time stamps that write_pcap gives them.
Stamped(packets) ==
    [i \in DOMAIN packets |->
        [ts |-> base_ts + i - 1, frac |-> 0, data |-> packets[i]]]

\* A capture file: its magic number and version as bytes, the byte order of its
\* words, its link type, and what was written to it.
CaptureFile(prefix, order, link, written) ==
    prefix \o Zeros(8) \o Word32(order, 65535) \o Word32(order, link)
        \o FlattenSeq([i \in DOMAIN written |->
               Word32(order, written[i].ts) \o Word32(order, written[i].frac)
                   \o Word32(order, Len(written[i].data)) \o Word32(order, Len(written[i].data))
                   \o written[i].data])

LE_MICRO == <<212, 195, 178, 161, 2, 0, 4, 0>>

write_pcap(packets) == CaptureFile(LE_MICRO, "little", 1, Stamped(packets))

=============================================================================
