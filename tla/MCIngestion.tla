----------------------------- MODULE MCIngestion -----------------------------
(* Small instances of Ingestion for TLC. *)
EXTENDS ReadBack, TLC

\* The bytes that are not ASCII here are no UTF-8 either.
MCLossy(bytes) == [i \in DOMAIN bytes |-> IF bytes[i] < 128 THEN bytes[i] ELSE 65533]
MCIsUtf8(bytes) == \A i \in DOMAIN bytes : bytes[i] < 128

Client == <<10, 0, 0, 5>>
Resolver == <<8, 8, 8, 8>>
Server == <<198, 51, 100, 10>>
Name == <<<<119>>, <<101, 118>>>>                   \* w.ev
Get == <<71, 69, 84>>
Path == <<47, 97>>                                  \* /a

Ask == <<<<Client, 40001>>, <<Resolver, 53>>>>
Reply == <<<<Resolver, 53>>, <<Client, 40001>>>>
Tls == <<<<Client, 51000>>, <<Server, 443>>>>
Web == <<<<Client, 51001>>, <<Server, 80>>>>

\* A packet that was sent, in a plain frame.
Sent(ends, carried) ==
    [src |-> ends[1], dst |-> ends[2], carried |-> carried, seq |-> 2000,
     options |-> <<>>, vlan |-> None, padding |-> <<>>,
     mac |-> SubSeq(eth_header, 1, 12)]

Asks == [kind |-> "query", id |-> 4097, name |-> Name]
Answers == [kind |-> "response", id |-> 4097, name |-> Name, ip |-> Server]
Greets == [kind |-> "hello", sni |-> Text(Name)]
Gets == [kind |-> "request", method |-> Get, path |-> Path, host |-> Text(Name)]

Query == dns_query(4097, Name)
Response == dns_response(4097, Name, Server)
Hello == tls_client_hello(Text(Name))
Request == http_request(Get, Path, Text(Name))

\* The traffic of main, one packet of each kind; the frame of the request is
\* padded, as Ethernet may do.
SamplePackets == <<
    udp_pkt(Ask[1], Ask[2], Query),
    udp_pkt(Reply[1], Reply[2], Response),
    tcp_pkt(Tls[1], Tls[2], 2000, Hello),
    tcp_pkt(Web[1], Web[2], 3000, Request) \o Zeros(3)>>

SampleSent == <<
    Sent(Ask, Asks), Sent(Reply, Answers), Sent(Tls, Greets),
    [Sent(Web, Gets) EXCEPT !.seq = 3000, !.padding = Zeros(3)]>>

Truth(written, sent, hello) == [written |-> written, sent |-> sent, hello |-> hello]

LE_NANO == <<77, 60, 178, 161, 2, 0, 4, 0>>
Late == [i \in DOMAIN SamplePackets |->
    [ts |-> base_ts + i - 1, frac |-> 999999000 + 230 * i,
     data |-> SamplePackets[i]]]

\* The sample, written to the end or not.
CutCaptures ==
    {[bytes |-> b, truth |-> Truth(Stamped(SamplePackets), SampleSent, None)] :
        b \in Prefixes(write_pcap(SamplePackets))} \cup
    {[bytes |-> CaptureFile(LE_NANO, "little", 1, Late),
      truth |-> Truth(Late, <<>>, None)]}

\* A capture of one packet, of raw IP or of any other link type.
Single(data, link, sent, hello) ==
    [bytes |-> CaptureFile(LE_MICRO, "little", link, Stamped(<<data>>)),
     truth |-> Truth(Stamped(<<data>>), sent, hello)]

-----------------------------------------------------------------------------
(* DNS messages with any bytes where the name is, pointers to themselves among
   them. *)

Octets == {0, 1, 14, 16, 192}
Scrambled == [1 .. 5 -> Octets]
DnsHeader(qd, an) == Be16(257) \o Be16(33152) \o Be16(qd) \o Be16(an) \o Zeros(4)
ARecord == Be16(1) \o Be16(1) \o Be32(60) \o Be16(4) \o <<192, 0, 2, 1>>

DnsMessages(qd, an) == {DnsHeader(qd, an) \o s \o ARecord : s \in Scrambled}

DnsCaptures ==
    {Single(udp_datagram(Reply[1], Reply[2], m), 101, <<>>, None) :
        m \in DnsMessages(0, 1) \cup DnsMessages(1, 1)} \cup
    {Single(udp_datagram(Ask[1], Ask[2], m), 101, <<>>, None) :
        m \in DnsMessages(1, 0)}

-----------------------------------------------------------------------------
(* ClientHellos of several shapes, captured in part, or with a byte changed. *)

Sni == Text(Name)
Named(kind, text) == [kind |-> kind, name |-> text]
NameList(names) == [type |-> 0, names |-> names, data |-> <<>>]
OtherExtension == [type |-> 23, names |-> <<>>, data |-> <<1, 2, 3>>]
TwoNames == NameList(<<Named(1, <<120, 121>>), Named(0, Sni)>>)

ExtensionLists == {<<NameList(<<Named(0, Sni)>>)>>, <<TwoNames>>,
                   <<OtherExtension, NameList(<<Named(0, Sni)>>)>>,
                   <<NameList(<<Named(1, <<120>>)>>), OtherExtension>>}

Whole(session, extensions) ==
    [session |-> session, extensions |-> extensions, after |-> <<20, 3, 1>>, sni |-> Sni]
WithBytes(hello) ==
    [session |-> hello.session, extensions |-> hello.extensions, sni |-> hello.sni,
     after |-> hello.after, bytes |-> ClientHello(hello) \o hello.after]

Hellos == {WithBytes(Whole(session, list)) :
              session \in {<<>>, <<7, 7>>}, list \in ExtensionLists}

Segmented(payload) == tcp_segment(Tls[1], Tls[2], 2000, payload)

Changed == ClientHello(Whole(<<>>, <<TwoNames>>))

HelloCaptures ==
    UNION {{Single(Segmented(p), 101, <<>>, h) : p \in Prefixes(h.bytes)} : h \in Hellos} \cup
    {Single(Segmented([Changed EXCEPT ![i] = b]), 101, <<>>, None) :
        i \in 4 .. Len(Changed), b \in {0, 1, 4, 255}}

-----------------------------------------------------------------------------
(* Frames of several kinds, captured in part. *)

Datagram4 == udp_datagram(Ask[1], Ask[2], Query)
Mac == SubSeq(eth_header, 1, 12)
Tagged == Mac \o Be16(33024) \o Be16(5) \o Be16(2048)

\* With four bytes of options.
WithOptions ==
    ipv4_header_with(<<1, 1, 1, 0>>, Client, Resolver, UDP, 8 + Len(Query))
        \o udp_header(40001, 53, Len(Query)) \o Query

\* A length of zero, as segmentation in the card leaves it, or of too much.
Stated(n) == [Datagram4 EXCEPT ![3] = n \div 256, ![4] = n % 256]

Address6(last) == <<32, 1, 13, 184>> \o Zeros(11) \o <<last>>
Over6(protocol, data) ==
    <<96, 0, 0, 0>> \o Be16(Len(data)) \o <<protocol, 64>>
        \o Address6(1) \o Address6(2) \o data

\* A TCP header with options.
Offset24 == [tcp_header(51001, 80, 1) EXCEPT ![13] = 96] \o <<1, 1, 1, 1>> \o Request

Frames ==
    {eth_header \o Datagram4, Tagged \o Datagram4,
     eth_header \o Datagram4 \o Zeros(6),
     eth_header \o WithOptions,
     Mac \o Be16(34525) \o Over6(UDP, udp_header(40001, 53, Len(Query)) \o Query),
     Mac \o Be16(2054) \o Zeros(28)}

Datagrams ==
    {Stated(0), Stated(19), Stated(2000),
     Over6(ICMP6, <<135, 0>>), Over6(TCP, Offset24),
     ipv4_header(Client, Server, 1, 2) \o <<8, 0>>,
     ipv4_header(Client, Server, 47, 2) \o <<0, 0>>,
     [Datagram4 EXCEPT ![1] = 68], [Datagram4 EXCEPT ![1] = 79],
     [Segmented(Hello) EXCEPT ![33] = 64], [Segmented(Hello) EXCEPT ![33] = 240]}

Asked == Sent(Ask, Asks)

FrameCaptures ==
    {Single(f, 1, <<>>, None) : f \in UNION {Prefixes(f) : f \in Frames}} \cup
    {Single(d, 101, <<>>, None) : d \in UNION {Prefixes(d) : d \in Datagrams}} \cup
    {Single(eth_header \o Datagram4 \o Zeros(6), 1,
            <<[Asked EXCEPT !.padding = Zeros(6)]>>, None),
     Single(Tagged \o Datagram4, 1, <<[Asked EXCEPT !.vlan = 5]>>, None),
     Single(eth_header \o WithOptions, 1,
            <<[Asked EXCEPT !.options = <<1, 1, 1, 0>>]>>, None),
     Single(Datagram4, 101, <<Asked>>, None),
     Single(Datagram4, 113, <<None>>, None)}

MCCaptures == CutCaptures \cup DnsCaptures \cup HelloCaptures \cup FrameCaptures

\* A capture in the other byte order.
BE_MICRO == <<161, 178, 195, 212, 0, 2, 0, 4>>
MCBigEndian ==
    {[bytes |-> CaptureFile(BE_MICRO, "big", 1, Stamped(SubSeq(SamplePackets, 1, n))),
      truth |-> Truth(Stamped(SubSeq(SamplePackets, 1, n)), <<>>, None)] : n \in 0 .. 4}

\* What the theorems about WholePacketsRead, GeneratedIsReadBack and
\* CutHelloNoOtherName ask of captures holds of these.
ASSUME CapturesHoldRecords == \A c \in Captures : HoldsRecords(c)
ASSUME CapturesHoldSent == \A c \in Captures : HoldsSent(c)
ASSUME CapturesHoldHellos ==
    \A h \in {c.truth.hello : c \in Captures} \ {None} : WrittenHello(h)

-----------------------------------------------------------------------------

(***************************************************************************)
(* pcap.rs knows the magic numbers of captures in both byte orders, and    *)
(* reads each of them in its order: no whole capture is refused.           *)
(***************************************************************************)
EveryByteOrderIsRead == reading # "refused"

=============================================================================
