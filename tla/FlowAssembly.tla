---------------------------- MODULE FlowAssembly ----------------------------
(***************************************************************************)
(* From the packets of a capture to its flows: ingest_pcap_bytes           *)
(* (ingestion/mod.rs).                                                     *)
(*                                                                         *)
(* One step of the model is one turn of a loop of the code: first over the *)
(* packets, then over the flows that still lack a host name.  In between   *)
(* the flows leave the hash map in whatever order it iterates, and in the  *)
(* end they are sorted by the time at which they were first seen.          *)
(*                                                                         *)
(* A payload is a value without structure; what the parsers of             *)
(* ingestion/parse.rs find in it is given by the constant functions.  Its  *)
(* length, and with it the byte count of a flow, is left out.              *)
(***************************************************************************)
EXTENDS Naturals, Sequences, FiniteSets

CONSTANTS
    Ips,           \* IP addresses
    Rank,          \* Rank[ip] is the place of ip in the order of IpAddr
    Ports,         \* ports; 0 where the protocol has none
    Others,        \* the values of Protocol::Other
    Names,         \* host names
    EmptyName,     \* the empty host name
    Urls,          \* URLs
    Payloads,      \* transport payloads that are not empty
    Digests,       \* SHA-256 digests
    None,          \* Option::None; also an empty payload, and a packet that
                   \* is not parsed down to a transport segment
    Captures,      \* the captures that an ingest may be given
    DnsQueryName,  \* parse_dns_query_name
    DnsAnswers,    \* parse_dns_response
    Sni,           \* extract_sni
    HttpHost,      \* extract_http, the host
    HttpUrl,       \* extract_http, the URL
    Sha256         \* the digest of a payload

Optional(S) == S \cup {None}
Hosts == Names \cup {EmptyName}
Protocols == {"Tcp", "Udp", "Icmp"} \cup Others
Endpoints == Ips \X Ports

\* RawPacket, after parse_ip_packet and parse_l4; the time is in seconds.
Packets == [src : Endpoints, dst : Endpoints, protocol : Protocols,
            payload : Optional(Payloads), ts : Nat]

ASSUME RankAssumption ==
    /\ Rank \in [Ips -> Nat]
    /\ \A i, j \in Ips : Rank[i] = Rank[j] => i = j

ASSUME PortAssumption == Ports \subseteq Nat

ASSUME OthersAssumption == Others \cap {"Tcp", "Udp", "Icmp"} = {}

ASSUME ParserAssumption ==
    /\ DnsQueryName \in [Payloads -> Optional(Hosts)]
    /\ DnsAnswers \in [Payloads -> Seq([name : Hosts, ip : Ips])]
    /\ Sni \in [Payloads -> Optional(Hosts)]
    /\ HttpHost \in [Payloads -> Optional(Hosts)]
    /\ HttpUrl \in [Payloads -> Optional(Urls)]
    /\ \A p \in Payloads : HttpHost[p] = None <=> HttpUrl[p] = None
    /\ Sha256 \in [Payloads -> Digests]

ASSUME NoneAssumption ==
    None \notin Packets \cup Hosts \cup Urls \cup Payloads \cup Digests

ASSUME CaptureAssumption == Captures \subseteq Seq(Optional(Packets))

VARIABLES
    packets,       \* the packets of the capture
    next,          \* the index of the loop
    phase,         \* "read", "enrich" or "done"
    flow_map,      \* from key to flow
    resolved,      \* from address to the name that DNS gave it
    parsed_count,  \* the packets that were parsed
    flows          \* the flows, once they are out of the map

vars == <<packets, next, phase, flow_map, resolved, parsed_count, flows>>

Flows == [src : Endpoints, dst : Endpoints, protocol : Protocols,
          hostname : Optional(Hosts), url : Optional(Urls),
          payload_sha256 : Optional(Digests),
          packet_count : Nat, first_seen : Nat, last_seen : Nat]

Keys == Endpoints \X Endpoints \X Protocols

Init ==
    /\ packets \in Captures
    /\ next = 1
    /\ phase = "read"
    /\ flow_map = <<>>
    /\ resolved = <<>>
    /\ parsed_count = 0
    /\ flows = <<>>

-----------------------------------------------------------------------------
(***************************************************************************)
(* What one packet tells                                                   *)
(***************************************************************************)

\* The order of (IpAddr, u16).
AtMost(e, f) ==
    \/ Rank[e[1]] < Rank[f[1]]
    \/ e[1] = f[1] /\ e[2] <= f[2]

\* Mutant: the two directions of a connection have a key each.
FlowKeyDirected(p) == <<p.src, p.dst, p.protocol>>

FlowKey(p) == IF AtMost(p.src, p.dst) THEN <<p.src, p.dst, p.protocol>>
                                      ELSE <<p.dst, p.src, p.protocol>>

Port(endpoint) == endpoint[2]

\* What a parser finds in the payload of p.
Found(parser, p) == IF p.payload = None THEN None ELSE parser[p.payload]

IsQuery(p) == p.protocol = "Udp" /\ Port(p.dst) = 53

IsResponse(p) == p.protocol = "Udp" /\ Port(p.src) = 53 /\ Port(p.dst) # 53

HostnameOf(p) ==
    IF IsQuery(p) THEN Found(DnsQueryName, p)
    ELSE IF p.protocol # "Tcp" THEN None
    ELSE IF Found(Sni, p) # None THEN Found(Sni, p)
    ELSE Found(HttpHost, p)

UrlOf(p) ==
    IF p.protocol = "Tcp" /\ Found(Sni, p) = None THEN Found(HttpUrl, p)
                                                  ELSE None

AnswersOf(p) ==
    IF IsResponse(p) /\ p.payload # None THEN DnsAnswers[p.payload] ELSE <<>>

\* Mutant: the first name that an address is resolved from stays.
ResolvedFirst(map, answers) ==
    [ip \in DOMAIN map \cup {answers[i].ip : i \in DOMAIN answers} |->
        IF ip \in DOMAIN map THEN map[ip]
        ELSE answers[CHOOSE i \in DOMAIN answers : answers[i].ip = ip].name]

\* The answers are put into the map one after the other.
Resolved(map, answers) ==
    [ip \in DOMAIN map \cup {answers[i].ip : i \in DOMAIN answers} |->
        LET at == {i \in DOMAIN answers : answers[i].ip = ip} IN
        IF at = {} THEN map[ip]
        ELSE answers[CHOOSE i \in at : \A j \in at : j <= i].name]

\* Mutant: the time of the first packet is not taken.
NewFlowUnstamped(p) ==
    [src |-> p.src, dst |-> p.dst, protocol |-> p.protocol,
     hostname |-> None, url |-> None, payload_sha256 |-> None,
     packet_count |-> 0, first_seen |-> None, last_seen |-> p.ts]

NewFlow(p) ==
    [src |-> p.src, dst |-> p.dst, protocol |-> p.protocol,
     hostname |-> None, url |-> None, payload_sha256 |-> None,
     packet_count |-> 0, first_seen |-> p.ts, last_seen |-> p.ts]

IfNone(value, other) == IF value = None THEN other ELSE value

\* What is told first stays.
Updated(flow, p) ==
    [flow EXCEPT !.packet_count = @ + 1,
                 !.last_seen = p.ts,
                 !.hostname = IfNone(@, HostnameOf(p)),
                 !.url = IfNone(@, UrlOf(p)),
                 !.payload_sha256 = IfNone(@, Found(Sha256, p))]

-----------------------------------------------------------------------------
(***************************************************************************)
(* The loops                                                               *)
(***************************************************************************)

SkipPacket ==
    /\ phase = "read"
    /\ next <= Len(packets)
    /\ packets[next] = None
    /\ next' = next + 1
    /\ UNCHANGED <<packets, phase, flow_map, resolved, parsed_count, flows>>

ReadPacket ==
    LET p   == packets[next]
        key == FlowKey(p)
    IN  /\ phase = "read"
        /\ next <= Len(packets)
        /\ p # None
        /\ parsed_count' = parsed_count + 1
        /\ resolved' = Resolved(resolved, AnswersOf(p))
        /\ flow_map' = [k \in DOMAIN flow_map \cup {key} |->
              IF k # key THEN flow_map[k]
              ELSE Updated(IF key \in DOMAIN flow_map THEN flow_map[key]
                                                      ELSE NewFlow(p), p)]
        /\ next' = next + 1
        /\ UNCHANGED <<packets, phase, flows>>

\* The orders in which a hash map may iterate over a set of keys.
Orders(keys) ==
    {order \in [1 .. Cardinality(keys) -> keys] :
        \A i, j \in DOMAIN order : order[i] = order[j] => i = j}

Collect ==
    /\ phase = "read"
    /\ next > Len(packets)
    /\ \E order \in Orders(DOMAIN flow_map) :
          flows' = [i \in DOMAIN order |-> flow_map[order[i]]]
    /\ phase' = "enrich"
    /\ next' = 1
    /\ UNCHANGED <<packets, flow_map, resolved, parsed_count>>

\* The name that DNS gave the destination, or else the source.
ResolvedName(flow) ==
    IF flow.dst[1] \in DOMAIN resolved THEN resolved[flow.dst[1]]
    ELSE IF flow.src[1] \in DOMAIN resolved THEN resolved[flow.src[1]]
    ELSE None

Enrich ==
    /\ phase = "enrich"
    /\ next <= Len(flows)
    /\ flows' = [flows EXCEPT
                    ![next].hostname = IfNone(@, ResolvedName(flows[next]))]
    /\ next' = next + 1
    /\ UNCHANGED <<packets, phase, flow_map, resolved, parsed_count>>

\* sort_by_key is stable.
Sort ==
    /\ phase = "enrich"
    /\ next > Len(flows)
    /\ LET Before(i, j) ==
               \/ flows[i].first_seen < flows[j].first_seen
               \/ flows[i].first_seen = flows[j].first_seen /\ i < j
       IN  flows' = [k \in DOMAIN flows |->
                        flows[CHOOSE i \in DOMAIN flows :
                            Cardinality({j \in DOMAIN flows : Before(j, i)})
                                = k - 1]]
    /\ phase' = "done"
    /\ UNCHANGED <<packets, next, flow_map, resolved, parsed_count>>

Next == SkipPacket \/ ReadPacket \/ Collect \/ Enrich \/ Sort

Spec == Init /\ [][Next]_vars

-----------------------------------------------------------------------------
(***************************************************************************)
(* Properties                                                              *)
(***************************************************************************)

(***************************************************************************)
(* The variables keep their types.                                         *)
(***************************************************************************)
TypeOK ==
    /\ packets \in Seq(Optional(Packets))
    /\ next \in Nat \ {0}
    /\ phase \in {"read", "enrich", "done"}
    /\ DOMAIN flow_map \subseteq Keys
    /\ \A key \in DOMAIN flow_map : flow_map[key] \in Flows
    /\ DOMAIN resolved \subseteq Ips
    /\ \A ip \in DOMAIN resolved : resolved[ip] \in Hosts
    /\ parsed_count \in 0 .. Len(packets)
    /\ flows \in Seq(Flows)

\* The indices of the packets of one connection, by the definition of a flow
\* in models.rs: the same unordered pair of endpoints, the same protocol.
PacketsOf(flow) ==
    {i \in DOMAIN packets :
        /\ packets[i] # None
        /\ packets[i].protocol = flow.protocol
        /\ {packets[i].src, packets[i].dst} = {flow.src, flow.dst}}

\* What the first packet in S for which Of tells something tells.
FirstTold(Of(_), S) ==
    LET telling == {i \in S : Of(packets[i]) # None} IN
    IF telling = {} THEN None
    ELSE Of(packets[CHOOSE i \in telling : \A j \in telling : i <= j])

(***************************************************************************)
(* Every packet that is parsed is counted in one flow, and in one only, in *)
(* whichever direction it went; no flow is without packets, and no two     *)
(* flows are the same connection.  A flow has the direction and the first  *)
(* time of its first packet, and the last time of its last packet.         *)
(***************************************************************************)
FlowsAreConnections ==
    phase = "done" =>
        /\ parsed_count = Cardinality({i \in DOMAIN packets : packets[i] # None})
        /\ UNION {PacketsOf(flows[k]) : k \in DOMAIN flows}
              = {i \in DOMAIN packets : packets[i] # None}
        /\ \A k, l \in DOMAIN flows :
              k # l => PacketsOf(flows[k]) \cap PacketsOf(flows[l]) = {}
        /\ \A k \in DOMAIN flows :
              LET mine == PacketsOf(flows[k]) IN
              /\ flows[k].packet_count = Cardinality(mine)
              /\ \E i, j \in mine :
                    /\ \A l \in mine : i <= l /\ l <= j
                    /\ flows[k].src = packets[i].src
                    /\ flows[k].dst = packets[i].dst
                    /\ flows[k].first_seen = packets[i].ts
                    /\ flows[k].last_seen = packets[j].ts
        /\ \A k, l \in DOMAIN flows :
              k < l => flows[k].first_seen <= flows[l].first_seen

\* The name that the last response with an answer for ip gives it.
LastAnswer(ip) ==
    LET answering == {i \in DOMAIN packets :
            /\ packets[i] # None
            /\ \E k \in DOMAIN AnswersOf(packets[i]) :
                  AnswersOf(packets[i])[k].ip = ip}
    IN  IF answering = {} THEN None
        ELSE LET i   == CHOOSE i \in answering : \A j \in answering : j <= i
                 at  == {k \in DOMAIN AnswersOf(packets[i]) :
                            AnswersOf(packets[i])[k].ip = ip}
             IN  AnswersOf(packets[i])[CHOOSE k \in at : \A l \in at : l <= k].name

\* The name that the first packet of a flow to tell one tells, or else the last
\* response for its destination, or else the last response for its source.
FirstName(flow) ==
    IfNone(FirstTold(HostnameOf, PacketsOf(flow)),
           IfNone(LastAnswer(flow.dst[1]), LastAnswer(flow.src[1])))

(***************************************************************************)
(* What the matcher is given does not depend on the order in which the     *)
(* hash map iterates.  Of the host of a flow, "first non-empty value wins" *)
(* (models.rs), in the order of packets first and responses next, even     *)
(* when the response comes after the flow; the URL and the digest are      *)
(* those of the first packet that has one.  Flows whose first name is      *)
(* empty are excepted: ingest_pcap_bytes keeps that one, and a later name  *)
(* that is not empty is lost.                                              *)
(***************************************************************************)
FirstTellingPacketWins ==
    phase = "done" =>
        \A k \in DOMAIN flows :
            LET flow == flows[k]
                mine == PacketsOf(flow)
            IN  /\ FirstName(flow) # EmptyName => flow.hostname = FirstName(flow)
                /\ flow.url = FirstTold(UrlOf, mine)
                /\ flow.payload_sha256 =
                      FirstTold(LAMBDA p : Found(Sha256, p), mine)

=============================================================================
