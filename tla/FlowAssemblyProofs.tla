-------------------------- MODULE FlowAssemblyProofs --------------------------
(***************************************************************************)
(* Proofs about FlowAssembly: the flows are the connections of the         *)
(* capture, and tell what the first telling packet of each told, for any   *)
(* packets and any order of the hash map.                                  *)
(***************************************************************************)
EXTENDS FlowAssembly, FiniteSetTheorems, TLAPS

USE RankAssumption, PortAssumption, NoneAssumption

(***************************************************************************)
(* What packets ps call for.                                               *)
(***************************************************************************)

\* What each packet tells, by its index.
NameAt(ps) == [i \in 1 .. Len(ps) |-> HostnameOf(ps[i])]
UrlAt(ps) == [i \in 1 .. Len(ps) |-> UrlOf(ps[i])]
DigestAt(ps) == [i \in 1 .. Len(ps) |-> Found(Sha256, ps[i])]

\* Of the first k packets, those that were parsed, and those with a key.
Seen(ps, k) == {i \in 1 .. k : ps[i] # None}
Mine(ps, key, k) == {i \in Seen(ps, k) : FlowKey(ps[i]) = key}

\* What the first packet in S told that told anything, or None.
IsFirst(v, told, S) ==
    \/ v = None /\ \A i \in S : told[i] = None
    \/ /\ v # None
       /\ \E i \in S : told[i] = v /\ \A j \in S : told[j] # None => i <= j

\* From the first to the last packet in S.
Spans(ps, flow, S) ==
    \E i, j \in S :
        /\ \A l \in S : i <= l /\ l <= j
        /\ flow.src = ps[i].src /\ flow.dst = ps[i].dst
        /\ flow.first_seen = ps[i].ts /\ flow.last_seen = ps[j].ts

\* The flow is made of the packets in S, its host name apart.
IsOf(ps, flow, S) ==
    /\ flow.packet_count = Cardinality(S)
    /\ Spans(ps, flow, S)
    /\ IsFirst(flow.url, UrlAt(ps), S)
    /\ IsFirst(flow.payload_sha256, DigestAt(ps), S)

\* Of the first k packets, packet i is the last that resolves ip, and m the
\* last of its answers that does.
IsLastAnswer(ps, ip, k, i, m) ==
    /\ i \in Seen(ps, k) /\ m \in DOMAIN AnswersOf(ps[i])
    /\ AnswersOf(ps[i])[m].ip = ip
    /\ \A j \in Seen(ps, k) : \A l \in DOMAIN AnswersOf(ps[j]) :
          AnswersOf(ps[j])[l].ip = ip => j < i \/ (j = i /\ l <= m)

\* The map of names holds the last answer for each address.
MapsAnswers(map, ps, k) ==
    /\ \A ip \in DOMAIN map :
          \E i \in Seen(ps, k) : \E m \in DOMAIN AnswersOf(ps[i]) :
              /\ IsLastAnswer(ps, ip, k, i, m)
              /\ map[ip] = AnswersOf(ps[i])[m].name
    /\ \A i \in Seen(ps, k) : \A m \in DOMAIN AnswersOf(ps[i]) :
          AnswersOf(ps[i])[m].ip \in DOMAIN map

\* The map of flows has one flow a connection, of the first k packets.
MapsFlows(map, ps, k) ==
    /\ IsFiniteSet(DOMAIN map)
    /\ \A key \in DOMAIN map :
          /\ map[key] \in Flows
          /\ FlowKey(map[key]) = key
          /\ IsOf(ps, map[key], Mine(ps, key, k))
          /\ IsFirst(map[key].hostname, NameAt(ps), Mine(ps, key, k))
    /\ \A i \in Seen(ps, k) : FlowKey(ps[i]) \in DOMAIN map

NameIn(map, flow) ==
    IF flow.dst[1] \in DOMAIN map THEN map[flow.dst[1]]
    ELSE IF flow.src[1] \in DOMAIN map THEN map[flow.src[1]]
    ELSE None

\* All packets of the connection of a flow.
All(ps, flow) == Mine(ps, FlowKey(flow), Len(ps))

\* The flow has its host name, by itself or by DNS.
Enriched(ps, map, flow) ==
    \E v \in Optional(Hosts) :
        IsFirst(v, NameAt(ps), All(ps, flow)) /\ flow.hostname = IfNone(v, NameIn(map, flow))

\* A list of flows has every connection of the packets once.
ListsFlows(list, ps) ==
    /\ \A f \in 1 .. Len(list) : IsOf(ps, list[f], All(ps, list[f]))
    /\ \A f, g \in 1 .. Len(list) : FlowKey(list[f]) = FlowKey(list[g]) => f = g
    /\ \A i \in Seen(ps, Len(ps)) :
          \E f \in 1 .. Len(list) : FlowKey(list[f]) = FlowKey(ps[i])

InOrder(list) ==
    \A k, l \in 1 .. Len(list) : k < l => list[k].first_seen <= list[l].first_seen

(***************************************************************************)
(* The invariant                                                           *)
(***************************************************************************)

Types ==
    /\ packets \in Seq(Optional(Packets))
    /\ next \in Nat \ {0}
    /\ phase \in {"read", "enrich", "done"}
    /\ phase = "read" => next <= Len(packets) + 1
    /\ flows \in Seq(Flows)

\* How many packets were read.
Taken == IF phase = "read" THEN next - 1 ELSE Len(packets)

\* How far the second loop has got.
NamesGiven ==
    \A f \in 1 .. Len(flows) :
        IF phase = "enrich" /\ f >= next
        THEN IsFirst(flows[f].hostname, NameAt(packets), All(packets, flows[f]))
        ELSE Enriched(packets, resolved, flows[f])

IInv ==
    /\ Types
    /\ MapsFlows(flow_map, packets, Taken)
    /\ MapsAnswers(resolved, packets, Taken)
    /\ parsed_count = Cardinality(Seen(packets, Taken))
    /\ phase = "read" => flows = <<>>
    /\ phase # "read" => ListsFlows(flows, packets) /\ NamesGiven
    /\ phase = "done" => InOrder(flows)

-----------------------------------------------------------------------------
(***************************************************************************)
(* Keys                                                                    *)
(***************************************************************************)

(* The order of endpoints is total. *)
LEMMA AtMostTotal ==
    ASSUME NEW e \in Endpoints, NEW f \in Endpoints
    PROVE  /\ AtMost(e, f) \/ AtMost(f, e)
           /\ AtMost(e, f) /\ AtMost(f, e) => e = f
<1>1. /\ e[1] \in Ips /\ e[2] \in Ports /\ f[1] \in Ips /\ f[2] \in Ports
      /\ e = <<e[1], e[2]>> /\ f = <<f[1], f[2]>>
  BY DEF Endpoints
<1>2. /\ Rank[e[1]] \in Nat /\ Rank[f[1]] \in Nat /\ e[2] \in Nat /\ f[2] \in Nat
      /\ Rank[e[1]] = Rank[f[1]] => e[1] = f[1]
  BY <1>1
<1>3. AtMost(e, f) \/ AtMost(f, e)
  BY <1>2 DEF AtMost
<1>4. ASSUME AtMost(e, f), AtMost(f, e)
      PROVE  e = f
  <2>1. e[1] = f[1] /\ e[2] = f[2]
    BY <1>2, <1>4 DEF AtMost
  <2>2. QED
    BY <1>1, <2>1
<1>5. QED
  BY <1>3, <1>4

(* Two packets, or flows, have one key if and only if they have the same    *)
(* two ends, in whatever direction, and the same protocol.                  *)
LEMMA SameConnection ==
    ASSUME NEW p, NEW q, p.src \in Endpoints, p.dst \in Endpoints,
           q.src \in Endpoints, q.dst \in Endpoints
    PROVE  FlowKey(p) = FlowKey(q)
              <=> p.protocol = q.protocol /\ {p.src, p.dst} = {q.src, q.dst}
<1>1. /\ AtMost(p.src, p.dst) \/ AtMost(p.dst, p.src)
      /\ AtMost(p.src, p.dst) /\ AtMost(p.dst, p.src) => p.src = p.dst
  BY AtMostTotal
<1>2. /\ AtMost(q.src, q.dst) \/ AtMost(q.dst, q.src)
      /\ AtMost(q.src, q.dst) /\ AtMost(q.dst, q.src) => q.src = q.dst
  BY AtMostTotal
<1>3. {p.src, p.dst} = {q.src, q.dst} <=>
         \/ p.src = q.src /\ p.dst = q.dst
         \/ p.src = q.dst /\ p.dst = q.src
  OBVIOUS
<1>4. QED
  BY <1>1, <1>2, <1>3 DEF FlowKey

(* What a packet tells is of its kind. *)
LEMMA PacketTells ==
    ASSUME NEW p \in Packets
    PROVE  /\ p.src \in Endpoints /\ p.dst \in Endpoints
           /\ p.protocol \in Protocols /\ p.ts \in Nat
           /\ HostnameOf(p) \in Optional(Hosts) /\ UrlOf(p) \in Optional(Urls)
           /\ Found(Sha256, p) \in Optional(Digests)
           /\ AnswersOf(p) \in Seq([name : Hosts, ip : Ips])
           /\ FlowKey(p) \in Keys
<1>1. /\ p.src \in Endpoints /\ p.dst \in Endpoints /\ p.protocol \in Protocols
      /\ p.ts \in Nat /\ p.payload \in Optional(Payloads)
  BY DEF Packets
<1>2. /\ Found(DnsQueryName, p) \in Optional(Hosts)
      /\ Found(Sni, p) \in Optional(Hosts) /\ Found(HttpHost, p) \in Optional(Hosts)
      /\ Found(HttpUrl, p) \in Optional(Urls)
      /\ Found(Sha256, p) \in Optional(Digests)
  BY <1>1, ParserAssumption DEF Found, Optional
<1>3. HostnameOf(p) \in Optional(Hosts) /\ UrlOf(p) \in Optional(Urls)
  BY <1>2 DEF HostnameOf, UrlOf, Optional
<1>4. AnswersOf(p) \in Seq([name : Hosts, ip : Ips])
  <2>1. CASE IsResponse(p) /\ p.payload # None
    <3>1. p.payload \in Payloads /\ AnswersOf(p) = DnsAnswers[p.payload]
      BY <1>1, <2>1 DEF AnswersOf, Optional
    <3>2. DnsAnswers \in [Payloads -> Seq([name : Hosts, ip : Ips])]
      BY ParserAssumption
    <3>3. ASSUME NEW T, DnsAnswers \in [Payloads -> T]
          PROVE  DnsAnswers[p.payload] \in T
      BY <3>1, <3>3
    <3>4. QED
      BY <3>1, <3>2, <3>3
  <2>2. CASE ~(IsResponse(p) /\ p.payload # None)
    <3>1. AnswersOf(p) = <<>>
      BY <2>2 DEF AnswersOf
    <3>2. QED
      BY <3>1
  <2>3. QED
    BY <2>1, <2>2
<1>5. FlowKey(p) \in Keys
  BY <1>1 DEF FlowKey, Keys
<1>6. QED
  BY <1>1, <1>2, <1>3, <1>4, <1>5

-----------------------------------------------------------------------------
(***************************************************************************)
(* One packet more                                                         *)
(***************************************************************************)

LEMMA SeenFinite ==
    ASSUME NEW ps, NEW k \in Nat, NEW S \in SUBSET Seen(ps, k)
    PROVE  IsFiniteSet(S) /\ Cardinality(S) \in Nat
<1>1. IsFiniteSet(1 .. k)
  BY FS_Interval
<1>2. S \subseteq 1 .. k
  BY DEF Seen
<1>3. IsFiniteSet(S)
  BY <1>1, <1>2, FS_Subset
<1>4. QED
  BY <1>3, FS_CardinalityType

(* What is seen of one packet more. *)
LEMMA SeenGrows ==
    ASSUME NEW ps, NEW k \in Nat
    PROVE  /\ ps[k + 1] = None => Seen(ps, k + 1) = Seen(ps, k)
           /\ ps[k + 1] # None => Seen(ps, k + 1) = Seen(ps, k) \cup {k + 1}
           /\ k + 1 \notin Seen(ps, k)
<1>1. \A i : i \in 1 .. k + 1 <=> i \in 1 .. k \/ i = k + 1
  OBVIOUS
<1>2. QED
  BY <1>1 DEF Seen

LEMMA MineGrows ==
    ASSUME NEW ps, NEW k \in Nat, NEW key
    PROVE  /\ (ps[k + 1] # None /\ FlowKey(ps[k + 1]) = key) =>
                 Mine(ps, key, k + 1) = Mine(ps, key, k) \cup {k + 1}
           /\ ~(ps[k + 1] # None /\ FlowKey(ps[k + 1]) = key) =>
                 Mine(ps, key, k + 1) = Mine(ps, key, k)
           /\ k + 1 \notin Mine(ps, key, k)
           /\ Mine(ps, key, k) \in SUBSET Seen(ps, k)
<1>1. k + 1 \notin Mine(ps, key, k) /\ Mine(ps, key, k) \in SUBSET Seen(ps, k)
  BY SeenGrows DEF Mine
<1>2. CASE ps[k + 1] = None
  <2>1. Seen(ps, k + 1) = Seen(ps, k)
    BY <1>2, SeenGrows
  <2>2. QED
    BY <1>1, <1>2, <2>1 DEF Mine
<1>3. CASE ps[k + 1] # None
  <2>1. Seen(ps, k + 1) = Seen(ps, k) \cup {k + 1}
    BY <1>3, SeenGrows
  <2>2. \A i : i \in Seen(ps, k + 1) <=> i \in Seen(ps, k) \/ i = k + 1
    BY <2>1
  <2>3. \A i : i \in Mine(ps, key, k + 1) <=>
           i \in Mine(ps, key, k) \/ (i = k + 1 /\ FlowKey(ps[k + 1]) = key)
    BY <2>2 DEF Mine
  <2>4. CASE FlowKey(ps[k + 1]) = key
    <3>1. Mine(ps, key, k + 1) = Mine(ps, key, k) \cup {k + 1}
      BY <2>3, <2>4
    <3>2. QED
      BY <1>1, <1>3, <2>4, <3>1
  <2>5. CASE FlowKey(ps[k + 1]) # key
    <3>1. Mine(ps, key, k + 1) = Mine(ps, key, k)
      BY <2>3, <2>5
    <3>2. QED
      BY <1>1, <2>5, <3>1
  <2>6. QED
    BY <2>4, <2>5
<1>4. QED
  BY <1>2, <1>3

(* What was told first stays, and if nothing was told, the next packet may.  *)
LEMMA FirstGrows ==
    ASSUME NEW told, NEW k \in Nat, NEW S \in SUBSET (1 .. k), NEW v,
           IsFirst(v, told, S)
    PROVE  IsFirst(IfNone(v, told[k + 1]), told, S \cup {k + 1})
<1>1. CASE v = None
  <2>1. \A i \in S : told[i] = None
    BY <1>1 DEF IsFirst
  <2>2. CASE told[k + 1] = None
    BY <1>1, <2>1, <2>2 DEF IsFirst, IfNone
  <2>3. CASE told[k + 1] # None
    <3>1. \A j \in S \cup {k + 1} : told[j] # None => k + 1 <= j
      BY <2>1
    <3>2. QED
      BY <1>1, <2>3, <3>1 DEF IsFirst, IfNone
  <2>4. QED
    BY <2>2, <2>3
<1>2. CASE v # None
  <2>1. PICK i \in S : told[i] = v /\ \A j \in S : told[j] # None => i <= j
    BY <1>2 DEF IsFirst
  <2>2. i <= k + 1
    OBVIOUS
  <2>3. \A j \in S \cup {k + 1} : told[j] # None => i <= j
    BY <2>1, <2>2
  <2>4. QED
    BY <1>2, <2>1, <2>3 DEF IsFirst, IfNone
<1>3. QED
  BY <1>1, <1>2

(* The fields of an updated flow. *)
LEMMA UpdatedIs ==
    ASSUME NEW flow \in Flows, NEW p \in Packets
    PROVE  /\ Updated(flow, p) \in Flows
           /\ FlowKey(Updated(flow, p)) = FlowKey(flow)
           /\ Updated(flow, p).src = flow.src /\ Updated(flow, p).dst = flow.dst
           /\ Updated(flow, p).first_seen = flow.first_seen
           /\ Updated(flow, p).last_seen = p.ts
           /\ Updated(flow, p).packet_count = flow.packet_count + 1
           /\ Updated(flow, p).hostname = IfNone(flow.hostname, HostnameOf(p))
           /\ Updated(flow, p).url = IfNone(flow.url, UrlOf(p))
           /\ Updated(flow, p).payload_sha256
                 = IfNone(flow.payload_sha256, Found(Sha256, p))
<1> DEFINE after == Updated(flow, p)
<1>1. /\ after.src = flow.src /\ after.dst = flow.dst
      /\ after.protocol = flow.protocol
      /\ after.first_seen = flow.first_seen /\ after.last_seen = p.ts
      /\ after.packet_count = flow.packet_count + 1
      /\ after.hostname = IfNone(flow.hostname, HostnameOf(p))
      /\ after.url = IfNone(flow.url, UrlOf(p))
      /\ after.payload_sha256 = IfNone(flow.payload_sha256, Found(Sha256, p))
  BY DEF Updated, Flows
<1>2. FlowKey(after) = FlowKey(flow)
  <2> HIDE DEF after
  <2>1. QED
    BY <1>1 DEF FlowKey
<1>3. after \in Flows
  <2>1. /\ IfNone(flow.hostname, HostnameOf(p)) \in Optional(Hosts)
        /\ IfNone(flow.url, UrlOf(p)) \in Optional(Urls)
        /\ IfNone(flow.payload_sha256, Found(Sha256, p)) \in Optional(Digests)
        /\ p.ts \in Nat /\ flow.packet_count + 1 \in Nat
    BY PacketTells DEF Flows, IfNone
  <2>2. QED
    BY <2>1 DEF Updated, Flows
<1>4. QED
  BY <1>1, <1>2, <1>3

(* A flow that a packet is added to. *)
LEMMA FlowGrows ==
    ASSUME NEW ps \in Seq(Optional(Packets)), NEW k \in Nat, k + 1 <= Len(ps),
           ps[k + 1] \in Packets, NEW flow \in Flows, NEW S \in SUBSET Seen(ps, k),
           IsOf(ps, flow, S), IsFirst(flow.hostname, NameAt(ps), S)
    PROVE  /\ IsOf(ps, Updated(flow, ps[k + 1]), S \cup {k + 1})
           /\ IsFirst(Updated(flow, ps[k + 1]).hostname, NameAt(ps), S \cup {k + 1})
<1> DEFINE p == ps[k + 1]
           after == Updated(flow, p)
<1>1. /\ after.src = flow.src /\ after.dst = flow.dst
      /\ after.first_seen = flow.first_seen /\ after.last_seen = p.ts
      /\ after.packet_count = flow.packet_count + 1
      /\ after.hostname = IfNone(flow.hostname, HostnameOf(p))
      /\ after.url = IfNone(flow.url, UrlOf(p))
      /\ after.payload_sha256 = IfNone(flow.payload_sha256, Found(Sha256, p))
  BY UpdatedIs
<1> HIDE DEF after
<1>2. S \in SUBSET (1 .. k) /\ k + 1 \notin S /\ IsFiniteSet(S)
  BY SeenFinite DEF Seen
<1>3. /\ NameAt(ps)[k + 1] = HostnameOf(p) /\ UrlAt(ps)[k + 1] = UrlOf(p)
      /\ DigestAt(ps)[k + 1] = Found(Sha256, p)
  <2>1. k + 1 \in 1 .. Len(ps)
    OBVIOUS
  <2>2. QED
    BY <2>1 DEF NameAt, UrlAt, DigestAt
<1>4. after.packet_count = Cardinality(S \cup {k + 1})
  <2>1. flow.packet_count = Cardinality(S)
    BY DEF IsOf
  <2>2. Cardinality(S \cup {k + 1}) = Cardinality(S) + 1
    BY <1>2, FS_AddElement
  <2>3. QED
    BY <1>1, <2>1, <2>2
<1>5. Spans(ps, after, S \cup {k + 1})
  <2>1. PICK i \in S, j \in S :
           /\ \A l \in S : i <= l /\ l <= j
           /\ flow.src = ps[i].src /\ flow.dst = ps[i].dst
           /\ flow.first_seen = ps[i].ts
    BY DEF IsOf, Spans
  <2>2. \A l \in S \cup {k + 1} : i <= l /\ l <= k + 1
    BY <1>2, <2>1
  <2>3. k + 1 \in S \cup {k + 1} /\ i \in S \cup {k + 1}
    OBVIOUS
  <2>4. QED
    BY <1>1, <2>1, <2>2, <2>3 DEF Spans
<1>6. /\ IsFirst(after.hostname, NameAt(ps), S \cup {k + 1})
      /\ IsFirst(after.url, UrlAt(ps), S \cup {k + 1})
      /\ IsFirst(after.payload_sha256, DigestAt(ps), S \cup {k + 1})
  <2>1. /\ IsFirst(flow.url, UrlAt(ps), S)
        /\ IsFirst(flow.payload_sha256, DigestAt(ps), S)
    BY DEF IsOf
  <2>2. ASSUME NEW v, NEW told, IsFirst(v, told, S)
        PROVE  IsFirst(IfNone(v, told[k + 1]), told, S \cup {k + 1})
    BY <1>2, <2>2, FirstGrows
  <2>3. /\ IsFirst(IfNone(flow.hostname, NameAt(ps)[k + 1]), NameAt(ps), S \cup {k + 1})
        /\ IsFirst(IfNone(flow.url, UrlAt(ps)[k + 1]), UrlAt(ps), S \cup {k + 1})
        /\ IsFirst(IfNone(flow.payload_sha256, DigestAt(ps)[k + 1]),
                   DigestAt(ps), S \cup {k + 1})
    BY <2>1, <2>2
  <2>4. QED
    BY <1>1, <1>3, <2>3
<1>7. QED
  BY <1>4, <1>5, <1>6 DEF IsOf, after

(* A flow that begins with a packet. *)
LEMMA FlowBegins ==
    ASSUME NEW ps \in Seq(Optional(Packets)), NEW i \in 1 .. Len(ps), ps[i] \in Packets
    PROVE  /\ NewFlow(ps[i]) \in Flows
           /\ FlowKey(Updated(NewFlow(ps[i]), ps[i])) = FlowKey(ps[i])
           /\ IsOf(ps, Updated(NewFlow(ps[i]), ps[i]), {i})
           /\ IsFirst(Updated(NewFlow(ps[i]), ps[i]).hostname, NameAt(ps), {i})
<1> DEFINE p == ps[i]
           new == NewFlow(p)
           after == Updated(new, p)
<1>1. /\ new \in Flows /\ new.src = p.src /\ new.dst = p.dst
      /\ new.protocol = p.protocol /\ new.first_seen = p.ts
      /\ new.packet_count = 0 /\ new.hostname = None /\ new.url = None
      /\ new.payload_sha256 = None
  BY PacketTells DEF NewFlow, Flows, Optional
<1> HIDE DEF new
<1>2. /\ FlowKey(after) = FlowKey(new)
      /\ after.src = p.src /\ after.dst = p.dst
      /\ after.first_seen = p.ts /\ after.last_seen = p.ts
      /\ after.packet_count = 1
      /\ after.hostname = HostnameOf(p)
      /\ after.url = UrlOf(p)
      /\ after.payload_sha256 = Found(Sha256, p)
  BY <1>1, UpdatedIs DEF IfNone
<1> HIDE DEF after
<1>3. FlowKey(new) = FlowKey(p)
  BY <1>1 DEF FlowKey
<1>4. /\ NameAt(ps)[i] = HostnameOf(p) /\ UrlAt(ps)[i] = UrlOf(p)
      /\ DigestAt(ps)[i] = Found(Sha256, p)
  BY DEF NameAt, UrlAt, DigestAt
<1>5. ASSUME NEW told
      PROVE  IsFirst(told[i], told, {i})
  BY DEF IsFirst
<1>6. Spans(ps, after, {i})
  BY <1>2 DEF Spans
<1>7. Cardinality({i}) = 1
  BY FS_Singleton
<1>8. /\ IsFirst(after.hostname, NameAt(ps), {i}) /\ IsFirst(after.url, UrlAt(ps), {i})
      /\ IsFirst(after.payload_sha256, DigestAt(ps), {i})
  BY <1>2, <1>4, <1>5
<1>9. IsOf(ps, after, {i})
  BY <1>2, <1>6, <1>7, <1>8 DEF IsOf
<1>10. QED
  BY <1>1, <1>2, <1>3, <1>8, <1>9 DEF after, new

(* The flows, when one packet more is counted.  The flow of its connection  *)
(* is new, or has all packets of the connection before it.                  *)
LEMMA FlowsGrow ==
    ASSUME NEW ps \in Seq(Optional(Packets)), NEW k \in Nat, k + 1 <= Len(ps),
           ps[k + 1] \in Packets, NEW map, MapsFlows(map, ps, k), NEW map2,
           map2 = [x \in DOMAIN map \cup {FlowKey(ps[k + 1])} |->
                     IF x # FlowKey(ps[k + 1]) THEN map[x]
                     ELSE Updated(IF FlowKey(ps[k + 1]) \in DOMAIN map
                                  THEN map[FlowKey(ps[k + 1])]
                                  ELSE NewFlow(ps[k + 1]), ps[k + 1])]
    PROVE  MapsFlows(map2, ps, k + 1)
<1> DEFINE key == FlowKey(ps[k + 1])
<1>1. /\ DOMAIN map2 = DOMAIN map \cup {key}
      /\ \A x \in DOMAIN map : x # key => map2[x] = map[x]
      /\ key \in DOMAIN map => map2[key] = Updated(map[key], ps[k + 1])
      /\ key \notin DOMAIN map => map2[key] = Updated(NewFlow(ps[k + 1]), ps[k + 1])
  OBVIOUS
<1>2. ps[k + 1] # None
  OBVIOUS
<1>3. IsFiniteSet(DOMAIN map2)
  BY <1>1, FS_AddElement DEF MapsFlows
<1>4. \A i \in Seen(ps, k + 1) : FlowKey(ps[i]) \in DOMAIN map2
  BY <1>1, <1>2, SeenGrows DEF MapsFlows
<1>5. ASSUME NEW x \in DOMAIN map2, x # key
      PROVE  /\ map2[x] \in Flows /\ FlowKey(map2[x]) = x
             /\ IsOf(ps, map2[x], Mine(ps, x, k + 1))
             /\ IsFirst(map2[x].hostname, NameAt(ps), Mine(ps, x, k + 1))
  <2>1. x \in DOMAIN map /\ map2[x] = map[x]
    BY <1>1, <1>5
  <2>2. Mine(ps, x, k + 1) = Mine(ps, x, k)
    BY <1>5, MineGrows
  <2>3. QED
    BY <2>1, <2>2 DEF MapsFlows
<1>6. /\ map2[key] \in Flows /\ FlowKey(map2[key]) = key
      /\ IsOf(ps, map2[key], Mine(ps, key, k + 1))
      /\ IsFirst(map2[key].hostname, NameAt(ps), Mine(ps, key, k + 1))
  <2>1. /\ Mine(ps, key, k + 1) = Mine(ps, key, k) \cup {k + 1}
        /\ Mine(ps, key, k) \in SUBSET Seen(ps, k)
    BY <1>2, MineGrows
  <2>2. CASE key \in DOMAIN map
    <3>1. /\ map[key] \in Flows /\ FlowKey(map[key]) = key
          /\ IsOf(ps, map[key], Mine(ps, key, k))
          /\ IsFirst(map[key].hostname, NameAt(ps), Mine(ps, key, k))
      BY <2>2 DEF MapsFlows
    <3>2. /\ IsOf(ps, Updated(map[key], ps[k + 1]), Mine(ps, key, k) \cup {k + 1})
          /\ IsFirst(Updated(map[key], ps[k + 1]).hostname, NameAt(ps),
                     Mine(ps, key, k) \cup {k + 1})
      BY <2>1, <3>1, FlowGrows
    <3>3. /\ Updated(map[key], ps[k + 1]) \in Flows
          /\ FlowKey(Updated(map[key], ps[k + 1])) = FlowKey(map[key])
      BY <3>1, UpdatedIs
    <3>4. map2[key] = Updated(map[key], ps[k + 1])
      BY <1>1, <2>2
    <3>5. QED
      BY <2>1, <3>1, <3>2, <3>3, <3>4
  <2>3. CASE key \notin DOMAIN map
    <3>1. Mine(ps, key, k) = {}
      BY <2>3 DEF MapsFlows, Mine
    <3>2. Mine(ps, key, k + 1) = {k + 1}
      BY <2>1, <3>1
    <3>3. k + 1 \in 1 .. Len(ps)
      OBVIOUS
    <3>4. map2[key] = Updated(NewFlow(ps[k + 1]), ps[k + 1])
      BY <1>1, <2>3
    <3>5. /\ NewFlow(ps[k + 1]) \in Flows
          /\ FlowKey(map2[key]) = key
          /\ IsOf(ps, map2[key], {k + 1})
          /\ IsFirst(map2[key].hostname, NameAt(ps), {k + 1})
      BY <3>3, <3>4, FlowBegins
    <3>6. map2[key] \in Flows
      BY <3>4, <3>5, UpdatedIs
    <3>7. QED
      BY <3>2, <3>5, <3>6
  <2>4. QED
    BY <2>2, <2>3
<1>7. QED
  BY <1>3, <1>4, <1>5, <1>6 DEF MapsFlows

(* Some index of a sequence is the last of a set of them.                   *)
LEMMA LastOf ==
    ASSUME NEW n \in Nat, NEW S \in SUBSET (1 .. n), S # {}
    PROVE  \E m \in S : \A l \in S : l <= m
<1> DEFINE Above(m) == m + 1 .. n
<1>1. \A m \in S : m \in Nat /\ m <= n
  OBVIOUS
<1>2. \A m \in S : Above(m) \in FiniteSubsetsOf(Nat)
  BY <1>1, FS_Interval DEF FiniteSubsetsOf
<1>3. IsWellFoundedOn(StrictSubsetOrdering(Nat), FiniteSubsetsOf(Nat))
  BY FS_StrictSubsetOrderingWellFounded
<1> DEFINE Aboves == {Above(m) : m \in S}
<1>4. PICK X \in Aboves : \A Y \in Aboves : <<Y, X>> \notin StrictSubsetOrdering(Nat)
  <2>1. Aboves \subseteq FiniteSubsetsOf(Nat) /\ Aboves # {}
    <3> HIDE RankAssumption, PortAssumption, NoneAssumption
    <3> HIDE DEF Above
    <3>1. QED
      BY <1>2
  <2> DEFINE Less == StrictSubsetOrdering(Nat)
             Finite == FiniteSubsetsOf(Nat)
  <2>2. IsWellFoundedOn(Less, Finite) /\ Aboves \subseteq Finite /\ Aboves # {}
    BY <1>3, <2>1
  <2> HIDE RankAssumption, PortAssumption, NoneAssumption
  <2> HIDE DEF Aboves, Less, Finite
  <2>3. \E X \in Aboves : \A Y \in Aboves : ~(<<Y, X>> \in Less)
    BY <2>2, WFMin
  <2>4. QED
    BY <2>3 DEF Less
<1>5. PICK m \in S : X = Above(m)
  OBVIOUS
<1>6. ASSUME NEW l \in S, ~(l <= m)
      PROVE  FALSE
  <2>1. Above(l) \subseteq Above(m) /\ l \in Above(m) /\ l \notin Above(l)
    BY <1>1, <1>6
  <2>2. Above(l) # Above(m) /\ Above(l) \in SUBSET Nat /\ Above(m) \in SUBSET Nat
    BY <1>1, <2>1
  <2>3. <<Above(l), Above(m)>> \in StrictSubsetOrdering(Nat)
    BY <2>1, <2>2 DEF StrictSubsetOrdering
  <2>4. QED
    BY <1>4, <1>5, <2>3
<1>7. QED
  BY <1>6

(* The names of the addresses, when the answers of one packet more are in.  *)
LEMMA AnswersGrow ==
    ASSUME NEW ps \in Seq(Optional(Packets)), NEW k \in Nat, k + 1 <= Len(ps),
           ps[k + 1] \in Packets, NEW map, MapsAnswers(map, ps, k)
    PROVE  MapsAnswers(Resolved(map, AnswersOf(ps[k + 1])), ps, k + 1)
<1> DEFINE answers == AnswersOf(ps[k + 1])
           map2 == Resolved(map, answers)
           At(ip) == {m \in DOMAIN answers : answers[m].ip = ip}
<1>1. answers \in Seq([name : Hosts, ip : Ips]) /\ ps[k + 1] # None
  BY PacketTells
<1>2. /\ DOMAIN map2 = DOMAIN map \cup {answers[m].ip : m \in DOMAIN answers}
      /\ \A ip \in DOMAIN map2 :
            map2[ip] = IF At(ip) = {} THEN map[ip]
                       ELSE answers[CHOOSE m \in At(ip) : \A l \in At(ip) : l <= m].name
  BY DEF Resolved
<1> HIDE DEF map2
<1>3. DOMAIN answers = 1 .. Len(answers) /\ Len(answers) \in Nat
  BY <1>1
<1> HIDE DEF answers
<1>4. Seen(ps, k + 1) = Seen(ps, k) \cup {k + 1}
  BY <1>1, SeenGrows
<1>5. \A i \in Seen(ps, k) : i \in Nat /\ i < k + 1
  BY DEF Seen
<1>6. ASSUME NEW ip \in DOMAIN map2
      PROVE  \E i \in Seen(ps, k + 1) : \E m \in DOMAIN AnswersOf(ps[i]) :
                 /\ IsLastAnswer(ps, ip, k + 1, i, m)
                 /\ map2[ip] = AnswersOf(ps[i])[m].name
  <2>1. CASE At(ip) = {}
    <3>1. ip \in DOMAIN map
      BY <1>2, <2>1
    <3>2. PICK i \in Seen(ps, k) : \E m \in DOMAIN AnswersOf(ps[i]) :
              /\ IsLastAnswer(ps, ip, k, i, m)
              /\ map[ip] = AnswersOf(ps[i])[m].name
      BY <3>1 DEF MapsAnswers
    <3>3. PICK m \in DOMAIN AnswersOf(ps[i]) :
              /\ IsLastAnswer(ps, ip, k, i, m)
              /\ map[ip] = AnswersOf(ps[i])[m].name
      BY <3>2
    <3>4. \A l \in DOMAIN AnswersOf(ps[k + 1]) : AnswersOf(ps[k + 1])[l].ip # ip
      BY <2>1 DEF answers
    <3>5. IsLastAnswer(ps, ip, k + 1, i, m)
      BY <1>4, <3>3, <3>4 DEF IsLastAnswer
    <3>6. map2[ip] = map[ip]
      BY <1>2, <2>1
    <3>7. QED
      BY <1>4, <3>3, <3>5, <3>6
  <2>2. CASE At(ip) # {}
    <3>1. \E m \in At(ip) : \A l \in At(ip) : l <= m
      <4>1. At(ip) \in SUBSET (1 .. Len(answers))
        BY <1>3
      <4>2. QED
        BY <1>3, <2>2, <4>1, LastOf
    <3>2. PICK m \in At(ip) :
              /\ m = CHOOSE x \in At(ip) : \A l \in At(ip) : l <= x
              /\ \A l \in At(ip) : l <= m
      BY <3>1
    <3>3. map2[ip] = answers[m].name
      BY <1>2, <2>2, <3>2
    <3>4. IsLastAnswer(ps, ip, k + 1, k + 1, m)
      BY <1>4, <1>5, <3>2 DEF IsLastAnswer, answers
    <3>5. QED
      BY <1>4, <3>3, <3>4 DEF answers
  <2>3. QED
    BY <2>1, <2>2
<1>7. \A i \in Seen(ps, k + 1) : \A m \in DOMAIN AnswersOf(ps[i]) :
         AnswersOf(ps[i])[m].ip \in DOMAIN map2
  BY <1>2, <1>4 DEF MapsAnswers, answers
<1>8. QED
  BY <1>6, <1>7 DEF MapsAnswers, map2, answers

(* A packet that is not parsed changes nothing.                             *)
LEMMA NothingGrows ==
    ASSUME NEW ps, NEW k \in Nat, ps[k + 1] = None, NEW map, NEW names,
           MapsFlows(map, ps, k), MapsAnswers(names, ps, k)
    PROVE  MapsFlows(map, ps, k + 1) /\ MapsAnswers(names, ps, k + 1)
<1>1. Seen(ps, k + 1) = Seen(ps, k)
  BY SeenGrows
<1>2. \A key : Mine(ps, key, k + 1) = Mine(ps, key, k)
  BY <1>1 DEF Mine
<1>3. MapsFlows(map, ps, k + 1)
  BY <1>1, <1>2 DEF MapsFlows
<1>4. \A ip, i, m : IsLastAnswer(ps, ip, k, i, m) => IsLastAnswer(ps, ip, k + 1, i, m)
  BY <1>1 DEF IsLastAnswer
<1>5. MapsAnswers(names, ps, k + 1)
  BY <1>1, <1>4 DEF MapsAnswers
<1>6. QED
  BY <1>3, <1>5

(* DNS names addresses by hosts. *)
LEMMA AnswersNameHosts ==
    ASSUME NEW ps \in Seq(Optional(Packets)), NEW k \in 0 .. Len(ps), NEW map,
           MapsAnswers(map, ps, k)
    PROVE  \A ip \in DOMAIN map : ip \in Ips /\ map[ip] \in Hosts
<1> TAKE ip \in DOMAIN map
<1>0. PICK i \in Seen(ps, k) : \E m \in DOMAIN AnswersOf(ps[i]) :
         /\ IsLastAnswer(ps, ip, k, i, m)
         /\ map[ip] = AnswersOf(ps[i])[m].name
  BY DEF MapsAnswers
<1>1. PICK m \in DOMAIN AnswersOf(ps[i]) :
         /\ IsLastAnswer(ps, ip, k, i, m)
         /\ map[ip] = AnswersOf(ps[i])[m].name
  BY <1>0
<1>2. AnswersOf(ps[i])[m].ip = ip
  BY <1>1 DEF IsLastAnswer
<1>3. i \in 1 .. Len(ps) /\ ps[i] # None
  BY DEF Seen
<1>4. ps[i] \in Packets
  BY <1>3 DEF Optional
<1>5. AnswersOf(ps[i]) \in Seq([name : Hosts, ip : Ips])
  BY <1>4, PacketTells
<1>6. AnswersOf(ps[i])[m] \in [name : Hosts, ip : Ips]
  <2>1. ASSUME NEW T, NEW s \in Seq(T), NEW j \in DOMAIN s
        PROVE  s[j] \in T
    OBVIOUS
  <2>2. QED
    BY <1>5, <2>1
<1>7. QED
  BY <1>1, <1>2, <1>6

-----------------------------------------------------------------------------
(***************************************************************************)
(* Out of the map                                                          *)
(***************************************************************************)

(* An order of the keys has each of them once. *)
LEMMA OrdersAreOnto ==
    ASSUME NEW D, IsFiniteSet(D), NEW order \in Orders(D)
    PROVE  /\ Cardinality(D) \in Nat
           /\ order \in [1 .. Cardinality(D) -> D]
           /\ \A i, j \in 1 .. Cardinality(D) : order[i] = order[j] => i = j
           /\ \A x \in D : \E i \in 1 .. Cardinality(D) : order[i] = x
<1> DEFINE n == Cardinality(D)
<1>1. n \in Nat
  BY FS_CardinalityType
<1>2. /\ order \in [1 .. n -> D]
      /\ \A i, j \in 1 .. n : order[i] = order[j] => i = j
  BY DEF Orders
<1>3. Cardinality(1 .. n) = n
  BY <1>1, FS_Interval
<1>4. order \in Injection(1 .. n, D)
  <2> HIDE DEF n
  <2>1. QED
    BY <1>2 DEF Injection, IsInjective
<1>5. order \in Surjection(1 .. n, D)
  BY <1>3, <1>4, FS_Injection
<1>6. \A x \in D : \E i \in 1 .. n : order[i] = x
  BY <1>5 DEF Surjection
<1>7. QED
  BY <1>1, <1>2, <1>6

(* The flows, in whatever order the map gives them. *)
LEMMA CollectLists ==
    ASSUME NEW ps \in Seq(Optional(Packets)), NEW map, MapsFlows(map, ps, Len(ps)),
           NEW order \in Orders(DOMAIN map), NEW list,
           list = [i \in DOMAIN order |-> map[order[i]]]
    PROVE  /\ list \in Seq(Flows) /\ ListsFlows(list, ps)
           /\ \A f \in 1 .. Len(list) :
                 IsFirst(list[f].hostname, NameAt(ps), All(ps, list[f]))
<1> DEFINE n == Cardinality(DOMAIN map)
<1>1. /\ n \in Nat /\ order \in [1 .. n -> DOMAIN map]
      /\ \A i, j \in 1 .. n : order[i] = order[j] => i = j
      /\ \A x \in DOMAIN map : \E i \in 1 .. n : order[i] = x
  BY OrdersAreOnto DEF MapsFlows
<1> HIDE DEF n
<1>2. \A i \in 1 .. n : order[i] \in DOMAIN map /\ list[i] = map[order[i]]
  BY <1>1
<1>3. \A i \in 1 .. n :
         /\ list[i] \in Flows /\ FlowKey(list[i]) = order[i]
         /\ IsOf(ps, list[i], All(ps, list[i]))
         /\ IsFirst(list[i].hostname, NameAt(ps), All(ps, list[i]))
  <2> TAKE i \in 1 .. n
  <2>1. PICK key \in DOMAIN map : key = order[i] /\ list[i] = map[key]
    BY <1>2
  <2>2. /\ map[key] \in Flows /\ FlowKey(map[key]) = key
        /\ IsOf(ps, map[key], Mine(ps, key, Len(ps)))
        /\ IsFirst(map[key].hostname, NameAt(ps), Mine(ps, key, Len(ps)))
    BY DEF MapsFlows
  <2>3. All(ps, map[key]) = Mine(ps, key, Len(ps))
    BY <2>2 DEF All
  <2>4. QED
    BY <2>1, <2>2, <2>3
<1>4. list \in Seq(Flows) /\ Len(list) = n
  <2>1. list \in [1 .. n -> Flows]
    BY <1>1, <1>3
  <2>2. QED
    BY <1>1, <2>1
<1>5. \A i \in Seen(ps, Len(ps)) : \E f \in 1 .. n : FlowKey(list[f]) = FlowKey(ps[i])
  <2> TAKE i \in Seen(ps, Len(ps))
  <2>1. FlowKey(ps[i]) \in DOMAIN map
    BY DEF MapsFlows
  <2>2. PICK f \in 1 .. n : order[f] = FlowKey(ps[i])
    BY <1>1, <2>1
  <2>3. QED
    BY <1>3, <2>2
<1>6. \A f, g \in 1 .. n : FlowKey(list[f]) = FlowKey(list[g]) => f = g
  BY <1>1, <1>3
<1>7. QED
  BY <1>3, <1>4, <1>5, <1>6 DEF ListsFlows

(* The list depends on each flow by all but its host name. *)
LEMMA HostnameApart ==
    ASSUME NEW ps, NEW flow \in Flows, NEW h \in Optional(Hosts), NEW flow2,
           flow2 = [flow EXCEPT !.hostname = h]
    PROVE  /\ flow2 \in Flows /\ flow2.hostname = h
           /\ FlowKey(flow2) = FlowKey(flow) /\ All(ps, flow2) = All(ps, flow)
           /\ flow2.src = flow.src /\ flow2.dst = flow.dst
           /\ \A S : IsOf(ps, flow2, S) <=> IsOf(ps, flow, S)
<1>1. /\ flow2.src = flow.src /\ flow2.dst = flow.dst
      /\ flow2.protocol = flow.protocol
      /\ flow2.first_seen = flow.first_seen /\ flow2.last_seen = flow.last_seen
      /\ flow2.packet_count = flow.packet_count /\ flow2.url = flow.url
      /\ flow2.payload_sha256 = flow.payload_sha256
      /\ flow2.hostname = h /\ flow2 \in Flows
  BY DEF Flows
<1>2. FlowKey(flow2) = FlowKey(flow)
  BY <1>1 DEF FlowKey
<1>3. All(ps, flow2) = All(ps, flow)
  BY <1>2 DEF All
<1>4. \A S : Spans(ps, flow2, S) <=> Spans(ps, flow, S)
  BY <1>1 DEF Spans
<1>5. \A S : IsOf(ps, flow2, S) <=> IsOf(ps, flow, S)
  BY <1>1, <1>4 DEF IsOf
<1>6. QED
  BY <1>1, <1>2, <1>3, <1>5

-----------------------------------------------------------------------------
(***************************************************************************)
(* The sort                                                                *)
(***************************************************************************)

\* Flow j comes before flow i, in a stable order by the first time.
Earlier(list, j, i) ==
    \/ list[j].first_seen < list[i].first_seen
    \/ list[j].first_seen = list[i].first_seen /\ j < i

\* How many flows come before flow i.
Place(list, i) == Cardinality({j \in 1 .. Len(list) : Earlier(list, j, i)})

\* The list in order.
Sorted(list) ==
    [k \in DOMAIN list |->
        list[CHOOSE i \in 1 .. Len(list) : Place(list, i) = k - 1]]

\* The other list has the same flows, each in another place.
Permutes(perm, list, list2) ==
    /\ perm \in [1 .. Len(list) -> 1 .. Len(list)]
    /\ \A k \in 1 .. Len(list) : list2[k] = list[perm[k]]
    /\ \A k, l \in 1 .. Len(list) : perm[k] = perm[l] => k = l
    /\ \A i \in 1 .. Len(list) : \E k \in 1 .. Len(list) : perm[k] = i

(* What a list of flows holds. *)
LEMMA ListedIsFlow ==
    ASSUME NEW list \in Seq(Flows), NEW i \in 1 .. Len(list)
    PROVE  /\ list[i] \in Flows /\ list[i].first_seen \in Nat
           /\ list[i].hostname \in Optional(Hosts)
<1>1. list[i] \in Flows
  OBVIOUS
<1>2. QED
  BY <1>1 DEF Flows

(* What comes earlier has a lower place. *)
LEMMA PlaceGrows ==
    ASSUME NEW list \in Seq(Flows), NEW i \in 1 .. Len(list), NEW j \in 1 .. Len(list),
           Earlier(list, i, j)
    PROVE  Place(list, i) \in Nat /\ Place(list, j) \in Nat
              /\ Place(list, i) < Place(list, j)
<1> DEFINE Front(x) == {y \in 1 .. Len(list) : Earlier(list, y, x)}
<1>1. \A x \in 1 .. Len(list) : list[x].first_seen \in Nat
  BY ListedIsFlow
<1>2. IsFiniteSet(1 .. Len(list))
  BY FS_Interval
<1>3. /\ IsFiniteSet(Front(i)) /\ IsFiniteSet(Front(j))
      /\ Cardinality(Front(i)) \in Nat /\ Cardinality(Front(j)) \in Nat
  <2>1. IsFiniteSet(Front(i)) /\ IsFiniteSet(Front(j))
    BY <1>2, FS_Subset
  <2> HIDE DEF Front
  <2>2. QED
    BY <2>1, FS_CardinalityType
<1>4. Front(i) \in SUBSET Front(j)
  BY <1>1 DEF Earlier
<1>5. i \in Front(j) /\ i \notin Front(i)
  BY <1>1 DEF Earlier
<1>6. Place(list, i) = Cardinality(Front(i)) /\ Place(list, j) = Cardinality(Front(j))
  BY DEF Place
<1> HIDE DEF Front
<1>7. /\ Cardinality(Front(i)) <= Cardinality(Front(j))
      /\ Cardinality(Front(i)) # Cardinality(Front(j))
  <2>1. Front(i) # Front(j)
    BY <1>5
  <2>2. QED
    BY <1>3, <1>4, <2>1, FS_Subset
<1>8. QED
  BY <1>3, <1>6, <1>7

(* Each flow has a place of its own, and each place a flow. *)
LEMMA PlacesAreTaken ==
    ASSUME NEW list \in Seq(Flows)
    PROVE  /\ \A i \in 1 .. Len(list) : Place(list, i) \in 0 .. Len(list) - 1
           /\ \A i, j \in 1 .. Len(list) : Place(list, i) = Place(list, j) => i = j
           /\ \A k \in 1 .. Len(list) : \E i \in 1 .. Len(list) :
                 Place(list, i) = k - 1
<1> DEFINE n == Len(list)
<1>1. n \in Nat /\ \A x \in 1 .. n : list[x].first_seen \in Nat
  BY ListedIsFlow
<1>2. \A i, j \in 1 .. n : i # j => Earlier(list, i, j) \/ Earlier(list, j, i)
  BY <1>1 DEF Earlier
<1>3. \A i, j \in 1 .. n : Place(list, i) = Place(list, j) => i = j
  <2> TAKE i, j \in 1 .. n
  <2>1. ASSUME i # j, Place(list, i) = Place(list, j)
        PROVE  FALSE
    <3>1. CASE Earlier(list, i, j)
      BY <2>1, <3>1, PlaceGrows
    <3>2. CASE Earlier(list, j, i)
      BY <2>1, <3>2, PlaceGrows
    <3>3. QED
      BY <1>2, <2>1, <3>1, <3>2
  <2>2. QED
    BY <2>1
<1>4. \A i \in 1 .. n : Place(list, i) \in 0 .. n - 1
  <2> TAKE i \in 1 .. n
  <2> DEFINE Front == {y \in 1 .. n : Earlier(list, y, i)}
  <2>1. i \notin Front /\ Front \in SUBSET (1 .. n)
    BY <1>1 DEF Earlier
  <2>2. Place(list, i) = Cardinality(Front)
    BY DEF Place
  <2> HIDE DEF Front
  <2>3. IsFiniteSet(1 .. n) /\ Cardinality(1 .. n) = n
    BY <1>1, FS_Interval
  <2>4. IsFiniteSet(Front) /\ Cardinality(Front) <= n /\ Cardinality(Front) # n
    <3> DEFINE Whole == 1 .. n
    <3>1. /\ Front # Whole /\ Front \in SUBSET Whole
          /\ IsFiniteSet(Whole) /\ Cardinality(Whole) = n
      BY <2>1, <2>3
    <3> HIDE DEF n, Whole
    <3>2. /\ IsFiniteSet(Front) /\ Cardinality(Front) <= Cardinality(Whole)
          /\ Cardinality(Front) # Cardinality(Whole)
      BY <3>1, FS_Subset
    <3>3. QED
      BY <3>1, <3>2
  <2>5. Cardinality(Front) \in Nat
    BY <2>4, FS_CardinalityType
  <2>6. QED
    BY <1>1, <2>2, <2>4, <2>5
<1> HIDE DEF n
<1> DEFINE place == [i \in 1 .. n |-> Place(list, i)]
<1>5. place \in Injection(1 .. n, 0 .. n - 1)
  BY <1>3, <1>4 DEF Injection, IsInjective
<1>6. /\ IsFiniteSet(0 .. n - 1) /\ Cardinality(0 .. n - 1) = n
      /\ Cardinality(1 .. n) = n
  <2>1. CASE n = 0
    <3>1. 0 .. n - 1 = {} /\ 1 .. n = {}
      BY <2>1
    <3>2. QED
      BY <2>1, <3>1, FS_EmptySet
  <2>2. CASE n # 0
    <3>1. n - 1 \in Nat /\ n - 1 - 0 + 1 = n /\ n - 1 + 1 = n
      BY <1>1, <2>2
    <3>2. QED
      BY <1>1, <3>1, FS_Interval
  <2>3. QED
    BY <2>1, <2>2
<1>7. place \in Surjection(1 .. n, 0 .. n - 1)
  <2> HIDE DEF place
  <2>1. QED
    BY <1>5, <1>6, FS_Injection
<1>8. \A k \in 1 .. n : \E i \in 1 .. n : Place(list, i) = k - 1
  <2> TAKE k \in 1 .. n
  <2>1. k - 1 \in 0 .. n - 1
    BY <1>1
  <2>2. PICK i \in 1 .. n : place[i] = k - 1
    BY <1>7, <2>1 DEF Surjection
  <2>3. QED
    BY <2>2
<1>9. QED
  BY <1>3, <1>4, <1>8 DEF n

(* The sort puts the same flows in order. *)
LEMMA SortOrders ==
    ASSUME NEW list \in Seq(Flows)
    PROVE  /\ Sorted(list) \in Seq(Flows) /\ Len(Sorted(list)) = Len(list)
           /\ InOrder(Sorted(list))
           /\ \E perm : Permutes(perm, list, Sorted(list))
<1> DEFINE n == Len(list)
           perm == [k \in 1 .. n |-> CHOOSE i \in 1 .. n : Place(list, i) = k - 1]
<1>1. /\ n \in Nat /\ list \in [1 .. n -> Flows]
      /\ \A x \in 1 .. n : list[x].first_seen \in Nat
  BY ListedIsFlow
<1>2. /\ \A i \in 1 .. n : Place(list, i) \in 0 .. n - 1
      /\ \A i, j \in 1 .. n : Place(list, i) = Place(list, j) => i = j
      /\ \A k \in 1 .. n : \E i \in 1 .. n : Place(list, i) = k - 1
  BY PlacesAreTaken
<1>3. Sorted(list) = [k \in 1 .. n |-> list[perm[k]]]
  BY <1>1 DEF Sorted
<1> HIDE DEF n
<1>4. \A k \in 1 .. n : perm[k] \in 1 .. n /\ Place(list, perm[k]) = k - 1
  BY <1>2
<1>5. perm \in [1 .. n -> 1 .. n]
  BY <1>4
<1> HIDE DEF perm
<1>6. Sorted(list) \in Seq(Flows) /\ Len(Sorted(list)) = n
  <2>1. Sorted(list) \in [1 .. n -> Flows]
    BY <1>1, <1>3, <1>4
  <2>2. QED
    BY <1>1, <2>1
<1>7. \A k, l \in 1 .. n : perm[k] = perm[l] => k = l
  <2> TAKE k, l \in 1 .. n
  <2>1. Place(list, perm[k]) = k - 1 /\ Place(list, perm[l]) = l - 1
    BY <1>4
  <2>2. QED
    BY <1>1, <2>1
<1>8. \A i \in 1 .. n : \E k \in 1 .. n : perm[k] = i
  <2> TAKE i \in 1 .. n
  <2>1. PICK p \in 0 .. n - 1 : p = Place(list, i)
    BY <1>2
  <2>2. p + 1 \in 1 .. n /\ (p + 1) - 1 = p
    BY <1>1
  <2>3. perm[p + 1] = i
    BY <1>2, <1>4, <2>1, <2>2
  <2>4. QED
    BY <2>2, <2>3
<1>9. InOrder(Sorted(list))
  <2>1. ASSUME NEW k \in 1 .. n, NEW l \in 1 .. n, k < l
        PROVE  Sorted(list)[k].first_seen <= Sorted(list)[l].first_seen
    <3>1. /\ perm[k] \in 1 .. n /\ perm[l] \in 1 .. n
          /\ Place(list, perm[k]) = k - 1 /\ Place(list, perm[l]) = l - 1
      BY <1>4
    <3>2. ~Earlier(list, perm[l], perm[k])
      <4>1. ASSUME Earlier(list, perm[l], perm[k])
            PROVE  Place(list, perm[l]) < Place(list, perm[k])
        BY <3>1, <4>1, PlaceGrows DEF n
      <4>2. QED
        BY <1>1, <2>1, <3>1, <4>1
    <3>3. list[perm[k]].first_seen <= list[perm[l]].first_seen
      BY <1>1, <3>1, <3>2 DEF Earlier
    <3>4. QED
      BY <1>3, <3>3
  <2>2. QED
    BY <1>6, <2>1 DEF InOrder
<1>10. Permutes(perm, list, Sorted(list))
  <2>1. \A k \in 1 .. n : Sorted(list)[k] = list[perm[k]]
    BY <1>3
  <2>2. QED
    BY <1>5, <1>7, <1>8, <2>1 DEF Permutes, n
<1>11. QED
  BY <1>6, <1>9, <1>10 DEF n

(* A list of the flows stays one in another order. *)
LEMMA ListsPermuted ==
    ASSUME NEW ps, NEW names, NEW list, NEW list2,
           Len(list2) = Len(list), ListsFlows(list, ps),
           \A f \in 1 .. Len(list) : Enriched(ps, names, list[f]),
           NEW perm, Permutes(perm, list, list2)
    PROVE  /\ ListsFlows(list2, ps)
           /\ \A f \in 1 .. Len(list2) : Enriched(ps, names, list2[f])
<1> DEFINE n == Len(list)
<1>1. /\ \A k \in 1 .. n : perm[k] \in 1 .. n /\ list2[k] = list[perm[k]]
      /\ \A k, l \in 1 .. n : perm[k] = perm[l] => k = l
      /\ \A i \in 1 .. n : \E k \in 1 .. n : perm[k] = i
  BY DEF Permutes
<1>2. \A f \in 1 .. n : IsOf(ps, list2[f], All(ps, list2[f]))
  BY <1>1 DEF ListsFlows
<1>3. \A f, g \in 1 .. n : FlowKey(list2[f]) = FlowKey(list2[g]) => f = g
  <2> TAKE f, g \in 1 .. n
  <2>1. /\ perm[f] \in 1 .. n /\ perm[g] \in 1 .. n
        /\ list2[f] = list[perm[f]] /\ list2[g] = list[perm[g]]
    BY <1>1
  <2>2. FlowKey(list[perm[f]]) = FlowKey(list[perm[g]]) => perm[f] = perm[g]
    BY <2>1 DEF ListsFlows
  <2>3. QED
    BY <1>1, <2>1, <2>2
<1>4. \A i \in Seen(ps, Len(ps)) : \E f \in 1 .. n : FlowKey(list2[f]) = FlowKey(ps[i])
  <2> TAKE i \in Seen(ps, Len(ps))
  <2>1. PICK f \in 1 .. n : FlowKey(list[f]) = FlowKey(ps[i])
    BY DEF ListsFlows
  <2>2. PICK k \in 1 .. n : perm[k] = f
    BY <1>1
  <2>3. QED
    BY <1>1, <2>1, <2>2
<1>5. \A f \in 1 .. n : Enriched(ps, names, list2[f])
  BY <1>1
<1>6. QED
  BY <1>2, <1>3, <1>4, <1>5 DEF ListsFlows

-----------------------------------------------------------------------------
(***************************************************************************)
(* The invariant is inductive                                              *)
(***************************************************************************)

(* It holds before the first packet. *)
LEMMA InitHolds == Init => IInv
<1> SUFFICES ASSUME Init
             PROVE  IInv
  OBVIOUS
<1>1. /\ packets \in Seq(Optional(Packets)) /\ next = 1 /\ phase = "read"
      /\ flow_map = <<>> /\ resolved = <<>> /\ parsed_count = 0 /\ flows = <<>>
  BY CaptureAssumption DEF Init
<1>2. Taken = 0 /\ Types
  BY <1>1 DEF Taken, Types
<1>3. Seen(packets, 0) = {}
  BY DEF Seen
<1>4. DOMAIN flow_map = {} /\ DOMAIN resolved = {}
  BY <1>1
<1>5. IsFiniteSet({}) /\ Cardinality({}) = 0
  BY FS_EmptySet
<1>6. MapsFlows(flow_map, packets, 0)
  BY <1>3, <1>4, <1>5 DEF MapsFlows
<1>7. MapsAnswers(resolved, packets, 0)
  BY <1>3, <1>4 DEF MapsAnswers
<1>8. QED
  BY <1>1, <1>2, <1>3, <1>5, <1>6, <1>7 DEF IInv

(* It holds after a packet that is not parsed. *)
LEMMA SkipPacketHolds == IInv /\ SkipPacket => IInv'
<1> SUFFICES ASSUME IInv, SkipPacket
             PROVE  IInv'
  OBVIOUS
<1>1. /\ phase = "read" /\ phase' = "read" /\ next' = next + 1
      /\ packets[next] = None /\ next <= Len(packets)
      /\ packets' = packets /\ flow_map' = flow_map /\ resolved' = resolved
      /\ parsed_count' = parsed_count /\ flows' = flows
  BY DEF SkipPacket
<1>2. PICK k \in Nat : k + 1 = next
  BY DEF IInv, Types
<1>3. Taken = k /\ Taken' = k + 1
  BY <1>1, <1>2 DEF Taken
<1>4. /\ Types' /\ flows' = <<>>
  BY <1>1 DEF IInv, Types
<1>5. /\ MapsFlows(flow_map, packets, k + 1)
      /\ MapsAnswers(resolved, packets, k + 1)
  BY <1>1, <1>2, <1>3, NothingGrows DEF IInv
<1>6. parsed_count = Cardinality(Seen(packets, k + 1))
  <2>1. Seen(packets, k + 1) = Seen(packets, k)
    BY <1>1, <1>2, SeenGrows
  <2>2. QED
    BY <1>3, <2>1 DEF IInv
<1>7. QED
  BY <1>1, <1>3, <1>4, <1>5, <1>6 DEF IInv

(* It holds after a packet that is counted. *)
LEMMA ReadPacketHolds == IInv /\ ReadPacket => IInv'
<1> SUFFICES ASSUME IInv, ReadPacket
             PROVE  IInv'
  OBVIOUS
<1>1. /\ phase = "read" /\ phase' = "read" /\ next' = next + 1
      /\ packets[next] # None /\ next <= Len(packets) /\ next \in Nat \ {0}
      /\ packets' = packets /\ flows' = flows
      /\ parsed_count' = parsed_count + 1
      /\ resolved' = Resolved(resolved, AnswersOf(packets[next]))
      /\ flow_map' = [x \in DOMAIN flow_map \cup {FlowKey(packets[next])} |->
            IF x # FlowKey(packets[next]) THEN flow_map[x]
            ELSE Updated(IF FlowKey(packets[next]) \in DOMAIN flow_map
                         THEN flow_map[FlowKey(packets[next])]
                         ELSE NewFlow(packets[next]), packets[next])]
      /\ packets \in Seq(Optional(Packets))
  BY DEF ReadPacket, IInv, Types
<1>2. PICK k \in Nat : k + 1 = next
  BY <1>1
<1>3. Taken = k /\ Taken' = k + 1
  BY <1>1, <1>2 DEF Taken
<1>4. Types' /\ flows' = <<>>
  BY <1>1 DEF IInv, Types
<1>5. packets[k + 1] \in Packets /\ k + 1 <= Len(packets)
  <2>1. next \in 1 .. Len(packets)
    BY <1>1
  <2>2. packets[next] \in Optional(Packets)
    BY <1>1, <2>1
  <2>3. QED
    BY <1>1, <1>2, <2>2 DEF Optional
<1>6. PICK ps, map, names :
         /\ ps = packets /\ map = flow_map /\ names = resolved
         /\ ps \in Seq(Optional(Packets))
  BY <1>1
<1>7. MapsFlows(map, ps, k) /\ MapsAnswers(names, ps, k)
  BY <1>3, <1>6 DEF IInv
<1>8. MapsFlows(flow_map', packets, k + 1)
  <2>1. PICK map2 : map2 = flow_map'
    OBVIOUS
  <2>2. map2 = [x \in DOMAIN map \cup {FlowKey(ps[k + 1])} |->
                  IF x # FlowKey(ps[k + 1]) THEN map[x]
                  ELSE Updated(IF FlowKey(ps[k + 1]) \in DOMAIN map
                               THEN map[FlowKey(ps[k + 1])]
                               ELSE NewFlow(ps[k + 1]), ps[k + 1])]
    BY <1>1, <1>2, <1>6, <2>1
  <2>3. ps[k + 1] \in Packets /\ k + 1 <= Len(ps)
    BY <1>5, <1>6
  <2>4. MapsFlows(map2, ps, k + 1)
    BY <1>6, <1>7, <2>2, <2>3, FlowsGrow
  <2>5. QED
    BY <1>6, <2>1, <2>4
<1>9. MapsAnswers(resolved', packets, k + 1)
  <2>1. MapsAnswers(Resolved(names, AnswersOf(ps[k + 1])), ps, k + 1)
    BY <1>5, <1>6, <1>7, AnswersGrow
  <2>2. QED
    BY <1>1, <1>2, <1>6, <2>1
<1>10. parsed_count' = Cardinality(Seen(packets, k + 1))
  <2>1. Seen(ps, k + 1) = Seen(ps, k) \cup {k + 1} /\ k + 1 \notin Seen(ps, k)
    BY <1>1, <1>2, <1>6, SeenGrows
  <2>2. IsFiniteSet(Seen(ps, k))
    BY SeenFinite
  <2>3. Cardinality(Seen(ps, k + 1)) = Cardinality(Seen(ps, k)) + 1
    BY <2>1, <2>2, FS_AddElement
  <2>4. parsed_count = Cardinality(Seen(ps, k))
    BY <1>3, <1>6 DEF IInv
  <2>5. QED
    BY <1>1, <1>6, <2>3, <2>4
<1>11. QED
  BY <1>1, <1>3, <1>4, <1>8, <1>9, <1>10 DEF IInv

(* It holds once the flows are out of the map. *)
LEMMA CollectHolds == IInv /\ Collect => IInv'
<1> SUFFICES ASSUME IInv, Collect
             PROVE  IInv'
  OBVIOUS
<1>1. /\ phase = "read" /\ phase' = "enrich" /\ next' = 1
      /\ next > Len(packets) /\ next <= Len(packets) + 1 /\ next \in Nat \ {0}
      /\ packets' = packets /\ flow_map' = flow_map /\ resolved' = resolved
      /\ parsed_count' = parsed_count
      /\ packets \in Seq(Optional(Packets))
  BY DEF Collect, IInv, Types
<1>2. PICK order \in Orders(DOMAIN flow_map) :
         flows' = [i \in DOMAIN order |-> flow_map[order[i]]]
  BY DEF Collect
<1>3. Taken = Len(packets) /\ Taken' = Len(packets)
  BY <1>1 DEF Taken
<1>4. PICK ps, map, list :
         /\ ps = packets /\ map = flow_map /\ list = flows'
         /\ ps \in Seq(Optional(Packets))
  BY <1>1
<1>5. /\ list \in Seq(Flows) /\ ListsFlows(list, ps)
      /\ \A f \in 1 .. Len(list) :
            IsFirst(list[f].hostname, NameAt(ps), All(ps, list[f]))
  <2>1. MapsFlows(map, ps, Len(ps))
    BY <1>3, <1>4 DEF IInv
  <2>2. order \in Orders(DOMAIN map) /\ list = [i \in DOMAIN order |-> map[order[i]]]
    BY <1>2, <1>4
  <2>3. QED
    BY <1>4, <2>1, <2>2, CollectLists
<1>6. NamesGiven'
  BY <1>1, <1>4, <1>5 DEF NamesGiven
<1>7. Types' /\ ListsFlows(flows', packets')
  BY <1>1, <1>4, <1>5 DEF Types
<1>8. /\ MapsFlows(flow_map, packets, Len(packets))
      /\ MapsAnswers(resolved, packets, Len(packets))
      /\ parsed_count = Cardinality(Seen(packets, Len(packets)))
  BY <1>3 DEF IInv
<1>9. QED
  BY <1>1, <1>3, <1>6, <1>7, <1>8 DEF IInv

(* It holds after a flow was given its name. *)
LEMMA EnrichHolds == IInv /\ Enrich => IInv'
<1> SUFFICES ASSUME IInv, Enrich
             PROVE  IInv'
  OBVIOUS
<1>1. /\ phase = "enrich" /\ phase' = "enrich" /\ next' = next + 1
      /\ next \in 1 .. Len(flows) /\ next \in Nat \ {0}
      /\ packets' = packets /\ flow_map' = flow_map /\ resolved' = resolved
      /\ parsed_count' = parsed_count
      /\ packets \in Seq(Optional(Packets)) /\ flows \in Seq(Flows)
      /\ flows' = [flows EXCEPT
             ![next].hostname = IfNone(@, NameIn(resolved, flows[next]))]
  BY DEF Enrich, IInv, Types, ResolvedName, NameIn
<1>2. Taken = Len(packets) /\ Taken' = Len(packets)
  BY <1>1 DEF Taken
<1>3. PICK ps, names, list, n :
         /\ ps = packets /\ names = resolved /\ list = flows /\ n = next
         /\ ps \in Seq(Optional(Packets)) /\ list \in Seq(Flows)
         /\ n \in 1 .. Len(list)
  BY <1>1
<1>4. PICK list2 : list2 = flows'
  OBVIOUS
<1> DEFINE h == IfNone(list[n].hostname, NameIn(names, list[n]))
           flow2 == [list[n] EXCEPT !.hostname = h]
<1>5. /\ MapsFlows(flow_map, ps, Len(ps)) /\ MapsAnswers(names, ps, Len(ps))
      /\ parsed_count = Cardinality(Seen(ps, Len(ps)))
      /\ ListsFlows(list, ps)
      /\ NamesGiven
  BY <1>1, <1>2, <1>3 DEF IInv
<1>6. h \in Optional(Hosts)
  <2>1. NameIn(names, list[n]) \in Optional(Hosts)
    <3>1. \A ip \in DOMAIN names : names[ip] \in Hosts
      <4>1. Len(ps) \in 0 .. Len(ps)
        BY <1>3
      <4>2. QED
        BY <1>3, <1>5, <4>1, AnswersNameHosts
    <3>2. QED
      BY <3>1 DEF NameIn, Optional
  <2>2. list[n].hostname \in Optional(Hosts)
    BY <1>3, ListedIsFlow
  <2>3. QED
    BY <2>1, <2>2 DEF IfNone
<1>7. list[n] \in Flows
  BY <1>3, ListedIsFlow
<1>8. /\ flow2 \in Flows /\ flow2.hostname = h
      /\ FlowKey(flow2) = FlowKey(list[n]) /\ All(ps, flow2) = All(ps, list[n])
      /\ flow2.src = list[n].src /\ flow2.dst = list[n].dst
      /\ \A S : IsOf(ps, flow2, S) <=> IsOf(ps, list[n], S)
  BY <1>6, <1>7, HostnameApart
<1>9. list2 = [list EXCEPT ![n] = flow2]
  BY <1>1, <1>3, <1>4
<1>10. h = IfNone(list[n].hostname, NameIn(names, list[n]))
  OBVIOUS
<1> HIDE DEF flow2, h
<1>11. /\ list2 \in Seq(Flows) /\ Len(list2) = Len(list)
       /\ list2[n] = flow2
       /\ \A f \in 1 .. Len(list) : f # n => list2[f] = list[f]
  BY <1>3, <1>8, <1>9
<1>12. \A f \in 1 .. Len(list) :
          /\ FlowKey(list2[f]) = FlowKey(list[f])
          /\ All(ps, list2[f]) = All(ps, list[f])
          /\ IsOf(ps, list2[f], All(ps, list[f])) <=> IsOf(ps, list[f], All(ps, list[f]))
  BY <1>3, <1>8, <1>11
<1>13. ListsFlows(list2, ps)
  BY <1>5, <1>11, <1>12 DEF ListsFlows
<1>14. ASSUME NEW f \in 1 .. Len(list)
       PROVE  IF f >= n + 1
              THEN IsFirst(list2[f].hostname, NameAt(ps), All(ps, list2[f]))
              ELSE Enriched(ps, names, list2[f])
  <2>1. IF f >= n THEN IsFirst(list[f].hostname, NameAt(ps), All(ps, list[f]))
        ELSE Enriched(ps, names, list[f])
    BY <1>1, <1>3, <1>5 DEF NamesGiven
  <2>2. CASE f = n
    <3>1. IsFirst(list[n].hostname, NameAt(ps), All(ps, flow2))
      BY <1>8, <2>1, <2>2
    <3>2. list[n].hostname \in Optional(Hosts)
      BY <1>3, ListedIsFlow
    <3>3. NameIn(names, flow2) = NameIn(names, list[n])
      BY <1>8 DEF NameIn
    <3>4. flow2.hostname = IfNone(list[n].hostname, NameIn(names, flow2))
      BY <1>8, <1>10, <3>3
    <3>5. Enriched(ps, names, flow2)
      BY <3>1, <3>2, <3>4 DEF Enriched
    <3>6. QED
      BY <1>11, <2>2, <3>5
  <2>3. CASE f # n
    <3>1. list2[f] = list[f] /\ (f >= n + 1 <=> f >= n)
      BY <1>3, <1>11, <2>3
    <3>2. QED
      BY <2>1, <3>1
  <2>4. QED
    BY <2>2, <2>3
<1>15. NamesGiven'
  BY <1>1, <1>3, <1>4, <1>11, <1>14 DEF NamesGiven
<1>16. Types'
  BY <1>1, <1>3, <1>4, <1>11 DEF Types
<1>17. QED
  BY <1>1, <1>2, <1>3, <1>4, <1>5, <1>13, <1>15, <1>16 DEF IInv

(* It holds once the flows are sorted. *)
LEMMA SortHolds == IInv /\ Sort => IInv'
<1> SUFFICES ASSUME IInv, Sort
             PROVE  IInv'
  OBVIOUS
<1>1. /\ phase = "enrich" /\ phase' = "done" /\ next' = next
      /\ next > Len(flows) /\ next \in Nat \ {0}
      /\ packets' = packets /\ flow_map' = flow_map /\ resolved' = resolved
      /\ parsed_count' = parsed_count
      /\ packets \in Seq(Optional(Packets)) /\ flows \in Seq(Flows)
  BY DEF Sort, IInv, Types
<1>2. flows' = Sorted(flows)
  <2>1. DOMAIN flows = 1 .. Len(flows)
    BY <1>1
  <2>2. QED
    BY <2>1 DEF Sort, Sorted, Place, Earlier
<1>3. Taken = Len(packets) /\ Taken' = Len(packets)
  BY <1>1 DEF Taken
<1>4. PICK ps, names, list :
         /\ ps = packets /\ names = resolved /\ list = flows
         /\ ps \in Seq(Optional(Packets)) /\ list \in Seq(Flows)
  BY <1>1
<1>5. /\ MapsFlows(flow_map, ps, Len(ps)) /\ MapsAnswers(names, ps, Len(ps))
      /\ parsed_count = Cardinality(Seen(ps, Len(ps)))
      /\ ListsFlows(list, ps)
      /\ NamesGiven
  BY <1>1, <1>3, <1>4 DEF IInv
<1>6. \A f \in 1 .. Len(list) : Enriched(ps, names, list[f])
  BY <1>1, <1>4, <1>5 DEF NamesGiven
<1>7. PICK list2 : list2 = Sorted(list)
  OBVIOUS
<1>8. list2 \in Seq(Flows) /\ Len(list2) = Len(list) /\ InOrder(list2)
  BY <1>4, <1>7, SortOrders
<1>9. /\ ListsFlows(list2, ps)
      /\ \A f \in 1 .. Len(list2) : Enriched(ps, names, list2[f])
  <2>1. PICK perm : Permutes(perm, list, list2)
    BY <1>4, <1>7, SortOrders
  <2>2. QED
    BY <1>5, <1>6, <1>8, <2>1, ListsPermuted
<1>10. flows' = list2
  BY <1>2, <1>4, <1>7
<1>11. NamesGiven'
  BY <1>1, <1>4, <1>9, <1>10 DEF NamesGiven
<1>12. Types'
  BY <1>1, <1>8, <1>10 DEF Types
<1>13. QED
  BY <1>1, <1>3, <1>4, <1>5, <1>8, <1>9, <1>10, <1>11, <1>12 DEF IInv

(***************************************************************************)
(* Between any two steps of ingest_pcap_bytes the map has a flow for each  *)
(* connection of the packets read, made of them all, and the names are the *)
(* last answers; the list that leaves it keeps every flow, named and in    *)
(* order in the end.                                                       *)
(***************************************************************************)
THEOREM InvariantHolds == Spec => []IInv
<1>1. Init => IInv
  BY InitHolds
<1>2. IInv /\ [Next]_vars => IInv'
  <2> SUFFICES ASSUME IInv, [Next]_vars
               PROVE  IInv'
    OBVIOUS
  <2>1. CASE SkipPacket
    BY <2>1, SkipPacketHolds
  <2>2. CASE ReadPacket
    BY <2>2, ReadPacketHolds
  <2>3. CASE Collect
    BY <2>3, CollectHolds
  <2>4. CASE Enrich
    BY <2>4, EnrichHolds
  <2>5. CASE Sort
    BY <2>5, SortHolds
  <2>6. CASE UNCHANGED vars
    BY <2>6 DEF vars, IInv, Types, Taken, NamesGiven
  <2>7. QED
    BY <2>1, <2>2, <2>3, <2>4, <2>5, <2>6 DEF Next
<1>3. QED
  BY <1>1, <1>2, PTL DEF Spec

(* How many packets were read is a number of packets. *)
LEMMA TakenBounded == ASSUME IInv PROVE Taken \in 0 .. Len(packets)
<1>1. /\ packets \in Seq(Optional(Packets)) /\ next \in Nat \ {0}
      /\ phase = "read" => next <= Len(packets) + 1
  BY DEF IInv, Types
<1>2. Len(packets) \in Nat
  BY <1>1
<1>3. QED
  BY <1>1, <1>2 DEF Taken

(***************************************************************************)
(* The flows and the names that ingest_pcap_bytes collects keep their      *)
(* types, and it counts no more packets than the capture has.              *)
(***************************************************************************)
THEOREM TypeCorrect == Spec => []TypeOK
<1>1. IInv => TypeOK
  <2> SUFFICES ASSUME IInv
               PROVE  TypeOK
    OBVIOUS
  <2>1. PICK ps, k : /\ ps = packets /\ k = Taken /\ k \in 0 .. Len(ps)
                     /\ ps \in Seq(Optional(Packets))
    BY TakenBounded DEF IInv, Types
  <2>2. /\ MapsFlows(flow_map, ps, k) /\ MapsAnswers(resolved, ps, k)
        /\ parsed_count = Cardinality(Seen(ps, k))
    BY <2>1 DEF IInv
  <2>3. \A key \in DOMAIN flow_map : key \in Keys /\ flow_map[key] \in Flows
    <3> TAKE key \in DOMAIN flow_map
    <3>1. PICK flow \in Flows : flow = flow_map[key] /\ FlowKey(flow) = key
      BY <2>2 DEF MapsFlows
    <3>2. /\ flow.src \in Endpoints /\ flow.dst \in Endpoints
          /\ flow.protocol \in Protocols
      BY DEF Flows
    <3>3. QED
      BY <3>1, <3>2 DEF FlowKey, Keys
  <2>4. \A ip \in DOMAIN resolved : ip \in Ips /\ resolved[ip] \in Hosts
    BY <2>1, <2>2, AnswersNameHosts
  <2>5. parsed_count \in 0 .. Len(packets)
    <3>1. k \in Nat /\ k <= Len(ps) /\ Len(ps) \in Nat
      BY <2>1
    <3>2. IsFiniteSet(1 .. k) /\ Cardinality(1 .. k) = k
      BY <3>1, FS_Interval
    <3>3. Seen(ps, k) \in SUBSET (1 .. k)
      BY DEF Seen
    <3>4. Cardinality(Seen(ps, k)) <= k
      <4> DEFINE Read == 1 .. k
      <4>1. Seen(ps, k) \in SUBSET Read /\ IsFiniteSet(Read) /\ Cardinality(Read) = k
        BY <3>2, <3>3
      <4> HIDE DEF Read
      <4>2. Cardinality(Seen(ps, k)) <= Cardinality(Read)
        BY <4>1, FS_Subset
      <4>3. QED
        BY <4>1, <4>2
    <3>5. Cardinality(Seen(ps, k)) \in Nat
      BY <3>1, SeenFinite
    <3>6. QED
      BY <2>1, <2>2, <3>1, <3>4, <3>5
  <2>6. /\ next \in Nat \ {0} /\ phase \in {"read", "enrich", "done"}
        /\ flows \in Seq(Flows)
    BY DEF IInv, Types
  <2>7. QED
    BY <2>1, <2>3, <2>4, <2>5, <2>6 DEF TypeOK
<1>2. QED
  BY <1>1, InvariantHolds, PTL

(* The packets of a flow are those with its key. *)
LEMMA PacketsAreAll ==
    ASSUME packets \in Seq(Optional(Packets)), NEW flow \in Flows
    PROVE  PacketsOf(flow) = All(packets, flow)
<1>1. flow.src \in Endpoints /\ flow.dst \in Endpoints
  BY DEF Flows
<1>2. DOMAIN packets = 1 .. Len(packets)
  OBVIOUS
<1>3. ASSUME NEW i \in 1 .. Len(packets), packets[i] # None
      PROVE  FlowKey(packets[i]) = FlowKey(flow) <=>
                /\ packets[i].protocol = flow.protocol
                /\ {packets[i].src, packets[i].dst} = {flow.src, flow.dst}
  <2>1. packets[i] \in Optional(Packets)
    OBVIOUS
  <2>2. packets[i] \in Packets
    BY <1>3, <2>1 DEF Optional
  <2>3. packets[i].src \in Endpoints /\ packets[i].dst \in Endpoints
    BY <2>2, PacketTells
  <2>4. QED
    BY <1>1, <2>3, SameConnection
<1>4. \A i : i \in PacketsOf(flow) <=> i \in All(packets, flow)
  BY <1>2, <1>3 DEF PacketsOf, All, Mine, Seen
<1>5. QED
  BY <1>4 DEF PacketsOf, All, Mine

(***************************************************************************)
(* ingest_pcap_bytes counts every packet that it parses in one flow, and   *)
(* in one only; each flow spans its packets, and the list is in order.     *)
(***************************************************************************)
THEOREM ConnectionsCounted == Spec => []FlowsAreConnections
<1>1. IInv => FlowsAreConnections
  <2> SUFFICES ASSUME IInv, phase = "done"
               PROVE  FlowsAreConnections
    BY DEF FlowsAreConnections
  <2>1. PICK ps, n : /\ ps = packets /\ n = Len(flows)
                     /\ ps \in Seq(Optional(Packets))
    BY DEF IInv, Types
  <2>2. /\ flows \in Seq(Flows) /\ ListsFlows(flows, ps) /\ InOrder(flows)
        /\ parsed_count = Cardinality(Seen(ps, Len(ps)))
    BY <2>1 DEF IInv, Types, Taken
  <2>3. DOMAIN flows = 1 .. n /\ DOMAIN ps = 1 .. Len(ps)
    BY <2>1, <2>2
  <2>4. {i \in DOMAIN packets : packets[i] # None} = Seen(ps, Len(ps))
    BY <2>1, <2>3 DEF Seen
  <2>5. \A k \in 1 .. n : PacketsOf(flows[k]) = All(ps, flows[k])
    <3> TAKE k \in 1 .. n
    <3>1. flows[k] \in Flows
      BY <2>1, <2>2
    <3>2. QED
      BY <2>1, <3>1, PacketsAreAll
  <2>6. UNION {PacketsOf(flows[k]) : k \in DOMAIN flows} = Seen(ps, Len(ps))
    <3>1. \A i \in Seen(ps, Len(ps)) : \E k \in 1 .. n : i \in All(ps, flows[k])
      BY <2>1, <2>2 DEF ListsFlows, All, Mine
    <3>2. \A k \in 1 .. n : All(ps, flows[k]) \in SUBSET Seen(ps, Len(ps))
      BY DEF All, Mine
    <3>3. QED
      BY <2>3, <2>5, <3>1, <3>2
  <2>7. \A k, l \in 1 .. n :
           k # l => PacketsOf(flows[k]) \cap PacketsOf(flows[l]) = {}
    <3>1. \A k, l \in 1 .. n : FlowKey(flows[k]) = FlowKey(flows[l]) => k = l
      BY <2>1, <2>2 DEF ListsFlows
    <3>2. \A k \in 1 .. n : \A i \in PacketsOf(flows[k]) :
             FlowKey(ps[i]) = FlowKey(flows[k])
      BY <2>5 DEF All, Mine
    <3>3. QED
      BY <3>1, <3>2
  <2>8. ASSUME NEW k \in 1 .. n
        PROVE  /\ flows[k].packet_count = Cardinality(PacketsOf(flows[k]))
               /\ \E i, j \in PacketsOf(flows[k]) :
                     /\ \A l \in PacketsOf(flows[k]) : i <= l /\ l <= j
                     /\ flows[k].src = packets[i].src
                     /\ flows[k].dst = packets[i].dst
                     /\ flows[k].first_seen = packets[i].ts
                     /\ flows[k].last_seen = packets[j].ts
    <3>1. IsOf(ps, flows[k], All(ps, flows[k]))
      BY <2>1, <2>2 DEF ListsFlows
    <3>2. /\ flows[k].packet_count = Cardinality(All(ps, flows[k]))
          /\ Spans(ps, flows[k], All(ps, flows[k]))
      BY <3>1 DEF IsOf
    <3>3. QED
      BY <2>1, <2>5, <3>2 DEF Spans
  <2>9. \A k, l \in 1 .. n : k < l => flows[k].first_seen <= flows[l].first_seen
    BY <2>1, <2>2 DEF InOrder
  <2>10. QED
    BY <2>2, <2>3, <2>4, <2>6, <2>7, <2>8, <2>9 DEF FlowsAreConnections
<1>2. QED
  BY <1>1, InvariantHolds, PTL

\* The packets in S that tell anything, and the first of some packets.
Telling(told, S) == {x \in S : told[x] # None}
FirstIn(T) == CHOOSE x \in T : \A y \in T : x <= y

(* What is told first is what the first telling packet tells. *)
LEMMA FirstIsTold ==
    ASSUME NEW told, NEW n \in Nat, NEW S \in SUBSET (1 .. n), NEW v,
           IsFirst(v, told, S)
    PROVE  \/ v = None /\ Telling(told, S) = {}
           \/ /\ Telling(told, S) # {} /\ FirstIn(Telling(told, S)) \in S
              /\ v = told[FirstIn(Telling(told, S))]
<1>1. CASE v = None
  <2>1. \A x \in S : told[x] = None
    BY <1>1 DEF IsFirst
  <2>2. QED
    BY <1>1, <2>1 DEF Telling
<1>2. CASE v # None
  <2> DEFINE T == Telling(told, S)
             first == FirstIn(T)
  <2>1. PICK i \in S : told[i] = v /\ \A j \in S : told[j] # None => i <= j
    BY <1>2 DEF IsFirst
  <2>2. i \in T /\ (\A j \in T : i <= j) /\ T \in SUBSET S
    BY <1>2, <2>1 DEF Telling
  <2> HIDE DEF T
  <2>3. first \in T /\ \A j \in T : first <= j
    BY <2>2 DEF FirstIn
  <2> HIDE DEF first
  <2>4. first <= i /\ i <= first /\ first \in Nat /\ i \in Nat
    BY <2>2, <2>3
  <2>5. first = i
    BY <2>4
  <2>6. QED
    BY <2>1, <2>2, <2>5 DEF T, first
<1>3. QED
  BY <1>1, <1>2

(* The map of names holds the last answer of the capture for each address.  *)
LEMMA LastAnswerIs ==
    ASSUME NEW names, packets \in Seq(Optional(Packets)),
           MapsAnswers(names, packets, Len(packets)), NEW ip
    PROVE  LastAnswer(ip) = IF ip \in DOMAIN names THEN names[ip] ELSE None
<1> DEFINE answering == {i \in DOMAIN packets :
                /\ packets[i] # None
                /\ \E k \in DOMAIN AnswersOf(packets[i]) :
                      AnswersOf(packets[i])[k].ip = ip}
           At(i) == {k \in DOMAIN AnswersOf(packets[i]) :
                        AnswersOf(packets[i])[k].ip = ip}
           last == CHOOSE i \in answering : \A j \in answering : j <= i
<1>1. DOMAIN packets = 1 .. Len(packets) /\ Len(packets) \in Nat
  OBVIOUS
<1>2. answering = {i \in Seen(packets, Len(packets)) :
                      \E k \in DOMAIN AnswersOf(packets[i]) :
                          AnswersOf(packets[i])[k].ip = ip}
  BY <1>1 DEF Seen
<1>3. LastAnswer(ip) =
         IF answering = {} THEN None
         ELSE AnswersOf(packets[last])
                 [CHOOSE k \in At(last) : \A l \in At(last) : l <= k].name
  BY DEF LastAnswer
<1> HIDE DEF answering
<1>4. CASE ip \notin DOMAIN names
  <2>1. answering = {}
    BY <1>2, <1>4 DEF MapsAnswers
  <2>2. QED
    BY <1>3, <1>4, <2>1
<1>5. CASE ip \in DOMAIN names
  <2>1. PICK i \in Seen(packets, Len(packets)) : \E m \in DOMAIN AnswersOf(packets[i]) :
           /\ IsLastAnswer(packets, ip, Len(packets), i, m)
           /\ names[ip] = AnswersOf(packets[i])[m].name
    BY <1>5 DEF MapsAnswers
  <2>2. PICK m \in DOMAIN AnswersOf(packets[i]) :
           /\ IsLastAnswer(packets, ip, Len(packets), i, m)
           /\ names[ip] = AnswersOf(packets[i])[m].name
    BY <2>1
  <2>3. /\ AnswersOf(packets[i])[m].ip = ip
        /\ \A j \in Seen(packets, Len(packets)) : \A l \in DOMAIN AnswersOf(packets[j]) :
              AnswersOf(packets[j])[l].ip = ip => j < i \/ (j = i /\ l <= m)
    BY <2>2 DEF IsLastAnswer
  <2>4. answering \in SUBSET (1 .. Len(packets))
    BY <1>1 DEF answering
  <2>5. i \in answering /\ \A j \in answering : j <= i
    BY <1>1, <1>2, <2>3 DEF Seen
  <2>6. last \in answering /\ \A j \in answering : j <= last
    BY <2>5
  <2>7. last = i
    <3> HIDE DEF last
    <3>1. last <= i /\ i <= last /\ last \in Nat /\ i \in Nat
      BY <1>1, <2>4, <2>5, <2>6
    <3>2. QED
      BY <3>1
  <2>8. m \in At(i) /\ \A l \in At(i) : l <= m
    BY <1>1, <2>3 DEF Seen
  <2>9. At(i) \in SUBSET Nat
    <3>1. i \in 1 .. Len(packets) /\ packets[i] # None
      BY DEF Seen
    <3>2. packets[i] \in Optional(Packets)
      BY <3>1
    <3>3. packets[i] \in Packets
      BY <3>1, <3>2 DEF Optional
    <3>4. AnswersOf(packets[i]) \in Seq([name : Hosts, ip : Ips])
      BY <3>3, PacketTells
    <3>5. DOMAIN AnswersOf(packets[i]) \in SUBSET Nat
      BY <3>4
    <3>6. QED
      BY <3>5
  <2> DEFINE final == CHOOSE k \in At(i) : \A l \in At(i) : l <= k
  <2> HIDE DEF At, last
  <2>10. final = m
    <3>1. final \in At(i) /\ \A l \in At(i) : l <= final
      BY <2>8
    <3>2. final <= m /\ m <= final /\ final \in Nat /\ m \in Nat
      BY <2>8, <2>9, <3>1
    <3>3. QED
      BY <3>2
  <2>11. answering # {}
    BY <2>5
  <2>12. QED
    BY <1>3, <1>5, <2>2, <2>7, <2>10, <2>11
<1>6. QED
  BY <1>4, <1>5

(***************************************************************************)
(* What ingest_pcap_bytes hands to the matcher tells, for every order of   *)
(* the hash map, what the first telling packet of each connection told,    *)
(* and where no packet named the host the last answer of DNS, unless the   *)
(* name that comes first is empty.                                         *)
(***************************************************************************)
THEOREM FirstPacketsTell == Spec => []FirstTellingPacketWins
<1>1. IInv => FirstTellingPacketWins
  <2> SUFFICES ASSUME IInv, phase = "done", NEW k \in DOMAIN flows
               PROVE  /\ flows[k].hostname = FirstName(flows[k])
                      /\ flows[k].url = FirstTold(UrlOf, PacketsOf(flows[k]))
                      /\ flows[k].payload_sha256 =
                            FirstTold(LAMBDA p : Found(Sha256, p), PacketsOf(flows[k]))
    BY DEF FirstTellingPacketWins
  <2>1. /\ flows \in Seq(Flows) /\ ListsFlows(flows, packets) /\ NamesGiven
        /\ MapsAnswers(resolved, packets, Len(packets))
        /\ packets \in Seq(Optional(Packets)) /\ Len(packets) \in Nat
        /\ k \in 1 .. Len(flows) /\ flows[k] \in Flows
    BY DEF IInv, Types, Taken
  <2>2. PICK mine : mine = PacketsOf(flows[k])
    OBVIOUS
  <2>3. mine = All(packets, flows[k])
    BY <2>1, <2>2, PacketsAreAll
  <2>4. mine \in SUBSET (1 .. Len(packets))
    BY <2>3 DEF All, Mine, Seen
  <2>5. /\ IsFirst(flows[k].url, UrlAt(packets), mine)
        /\ IsFirst(flows[k].payload_sha256, DigestAt(packets), mine)
    BY <2>1, <2>3 DEF ListsFlows, IsOf
  <2>6. PICK v \in Optional(Hosts) :
           /\ IsFirst(v, NameAt(packets), mine)
           /\ flows[k].hostname = IfNone(v, NameIn(resolved, flows[k]))
    BY <2>1, <2>3 DEF NamesGiven, Enriched
  <2>7. \A i \in mine : /\ NameAt(packets)[i] = HostnameOf(packets[i])
                        /\ UrlAt(packets)[i] = UrlOf(packets[i])
                        /\ DigestAt(packets)[i] = Found(Sha256, packets[i])
    BY <2>4 DEF NameAt, UrlAt, DigestAt
  <2>8. v = FirstTold(HostnameOf, mine)
    <3>1. PICK T : T = Telling(NameAt(packets), mine)
      OBVIOUS
    <3>2. \/ v = None /\ T = {}
          \/ T # {} /\ FirstIn(T) \in mine /\ v = NameAt(packets)[FirstIn(T)]
      BY <2>1, <2>4, <2>6, <3>1, FirstIsTold
    <3>3. T = {i \in mine : HostnameOf(packets[i]) # None}
      BY <2>7, <3>1 DEF Telling
    <3>4. \/ v = None /\ T = {}
          \/ T # {} /\ v = HostnameOf(packets[FirstIn(T)])
      BY <2>7, <3>2
    <3>5. QED
      BY <3>3, <3>4 DEF FirstTold, FirstIn
  <2>9. flows[k].url = FirstTold(UrlOf, mine)
    <3>1. PICK T : T = Telling(UrlAt(packets), mine)
      OBVIOUS
    <3>2. \/ flows[k].url = None /\ T = {}
          \/ T # {} /\ FirstIn(T) \in mine /\ flows[k].url = UrlAt(packets)[FirstIn(T)]
      BY <2>1, <2>4, <2>5, <3>1, FirstIsTold
    <3>3. T = {i \in mine : UrlOf(packets[i]) # None}
      BY <2>7, <3>1 DEF Telling
    <3>4. \/ flows[k].url = None /\ T = {}
          \/ T # {} /\ flows[k].url = UrlOf(packets[FirstIn(T)])
      BY <2>7, <3>2
    <3>5. QED
      BY <3>3, <3>4 DEF FirstTold, FirstIn
  <2>10. flows[k].payload_sha256 = FirstTold(LAMBDA p : Found(Sha256, p), mine)
    <3>1. PICK T : T = Telling(DigestAt(packets), mine)
      OBVIOUS
    <3>2. \/ flows[k].payload_sha256 = None /\ T = {}
          \/ /\ T # {} /\ FirstIn(T) \in mine
             /\ flows[k].payload_sha256 = DigestAt(packets)[FirstIn(T)]
      BY <2>1, <2>4, <2>5, <3>1, FirstIsTold
    <3>3. T = {i \in mine : Found(Sha256, packets[i]) # None}
      BY <2>7, <3>1 DEF Telling
    <3>4. \/ flows[k].payload_sha256 = None /\ T = {}
          \/ T # {} /\ flows[k].payload_sha256 = Found(Sha256, packets[FirstIn(T)])
      BY <2>7, <3>2
    <3>5. QED
      BY <3>3, <3>4 DEF FirstTold, FirstIn
  <2>11. NameIn(resolved, flows[k]) =
            IfNone(LastAnswer(flows[k].dst[1]), LastAnswer(flows[k].src[1]))
    <3>1. \A ip : LastAnswer(ip) = IF ip \in DOMAIN resolved THEN resolved[ip] ELSE None
      BY <2>1, LastAnswerIs
    <3>2. \A ip \in DOMAIN resolved : resolved[ip] # None
      <4>1. Len(packets) \in 0 .. Len(packets)
        BY <2>1
      <4>2. \A ip \in DOMAIN resolved : resolved[ip] \in Hosts
        BY <2>1, <4>1, AnswersNameHosts
      <4>3. QED
        BY <4>2
    <3>3. QED
      BY <3>1, <3>2 DEF NameIn, IfNone
  <2>12. QED
    BY <2>2, <2>6, <2>8, <2>9, <2>10, <2>11 DEF FirstName
<1>2. QED
  BY <1>1, InvariantHolds, PTL

=============================================================================
