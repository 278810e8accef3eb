----------------------------- MODULE Detection -----------------------------
(***************************************************************************)
(* From the answers of the feeds to the report: the entries that become    *)
(* signatures (module FeedConversion), SignatureSet::build and classify    *)
(* (engine/matcher.rs), the loop of run_detection (pipeline.rs) and the    *)
(* tally of build_report (report.rs).                                      *)
(*                                                                         *)
(* The entries are converted one a step.  A run then turns the list of     *)
(* signatures into hash maps, one signature a step, and judges one flow a  *)
(* step against the maps.  The properties compare the outcome with the     *)
(* list, and with the entries, themselves.                                 *)
(***************************************************************************)
EXTENDS Naturals, FeedConversion

CONSTANTS
    Subnets,          \* the first three octets of IPv4 addresses
    Ports,            \* destination ports
    EntryLists,       \* what the feeds may answer, together
    SignatureLists,   \* what the cache or the sample may hold
    FlowLists,        \* lists of flows that a run may start from
    AddressOf,        \* the address that an endpoint of ThreatFox is about
    Subnet24,         \* subnet24: None for an IPv6 address
    NormalizeUrl,     \* normalize_url: trimmed, one trailing slash off
    Entropic,         \* the names for which looks_like_dga holds
    SUSPICIOUS_PORTS  \* ports of backdoor and C2 tooling

Flows == [src_ip : Ips, dst_ip : Ips, dst_port : Ports,
          hostname : Optional(Names), url : Optional(Urls),
          payload_sha256 : Optional(Hashes)]

\* Only an IPv4 address survives the cut at the first colon.
ASSUME ConversionAssumption ==
    /\ AddressOf \in [Endpoints -> Ips]
    /\ Subnet24 \in [Ips -> Optional(Subnets)]
    /\ NormalizeUrl \in [Urls -> Urls]
    /\ Entropic \subseteq Names
    /\ SUSPICIOUS_PORTS \subseteq Ports
    /\ \A e \in Endpoints :
          ParseIp[BeforeColon[e]] =
              IF Subnet24[AddressOf[e]] = None THEN None ELSE AddressOf[e]

ASSUME NoneAssumption == None \notin Subnets \cup Nat

\* run_detection bails out when there are no flows.
ASSUME ListAssumption ==
    /\ EntryLists \subseteq Seq(Entries)
    /\ SignatureLists \subseteq Seq(Signatures)
    /\ FlowLists \subseteq Seq(Flows) \ {<<>>}

VARIABLES
    entries,     \* what the feeds answered
    signatures,  \* the signatures that the run cloned
    flows,       \* the flows that the run cloned
    phase,       \* "convert", "build", "match", "tally" or "done"
    next,        \* the index of the loop
    ips, domains, urls, hashes,  \* SignatureSet: from key to the index, in
                                 \* signatures, of the one that the map holds
    subnets,     \* malicious_v4_subnets
    detections,  \* what the run found so far
    counts,      \* benign, suspicious and malicious, as run_detection counts
    emitted,     \* the number of events that the run emitted
    tally        \* the same three, as build_report counts them

vars == <<entries, signatures, flows, phase, next, ips, domains, urls, hashes, subnets,
          detections, counts, emitted, tally>>

sigSet == <<ips, domains, urls, hashes, subnets>>

Verdicts == {"Benign", "Suspicious", "Malicious"}
Zero == [v \in Verdicts |-> 0]

Init ==
    /\ entries \in EntryLists
    /\ signatures = <<>>
    /\ flows \in FlowLists
    /\ phase = "convert"
    /\ next = 1
    /\ ips = <<>> /\ domains = <<>> /\ urls = <<>> /\ hashes = <<>>
    /\ subnets = {}
    /\ detections = <<>>
    /\ counts = Zero
    /\ emitted = 0
    /\ tally = Zero

-----------------------------------------------------------------------------
\* The next entry of a feed.
Convert ==
    /\ phase = "convert"
    /\ next <= Len(entries)
    /\ signatures' = signatures \o Converted(entries[next])
    /\ next' = next + 1
    /\ UNCHANGED <<entries, flows, phase, sigSet, detections, counts, emitted, tally>>

\* If nothing came of the feeds, the set is that of the sample or of the cache.
Load ==
    /\ phase = "convert"
    /\ next > Len(entries)
    /\ IF signatures = <<>> THEN signatures' \in SignatureLists
                            ELSE UNCHANGED signatures
    /\ phase' = "build"
    /\ next' = 1
    /\ UNCHANGED <<entries, flows, sigSet, detections, counts, emitted, tally>>

-----------------------------------------------------------------------------
(***************************************************************************)
(* SignatureSet::build                                                     *)
(***************************************************************************)

\* HashMap::insert: an entry that is there already is replaced.
Inserted(map, key, i) ==
    [k \in DOMAIN map \cup {key} |-> IF k = key THEN i ELSE map[k]]

\* Mutant: what does not parse is indexed too.
IndexIpUnparsed ==
    LET ip == ParseIp[signatures[next].value] IN
    /\ signatures[next].ioc_type = "ip"
    /\ ips' = Inserted(ips, ip, next)
    /\ subnets' = IF ip = None THEN subnets
                   ELSE subnets \cup ({Subnet24[ip]} \ {None})
    /\ UNCHANGED <<domains, urls, hashes>>

IndexIp ==
    LET ip == ParseIp[signatures[next].value] IN
    /\ signatures[next].ioc_type = "ip"
    /\ IF ip = None
       THEN UNCHANGED <<ips, subnets>>
       ELSE /\ ips' = Inserted(ips, ip, next)
            /\ subnets' = subnets \cup ({Subnet24[ip]} \ {None})
    /\ UNCHANGED <<domains, urls, hashes>>

IndexDomain ==
    /\ signatures[next].ioc_type = "domain"
    /\ domains' = Inserted(domains, Lower[signatures[next].value], next)
    /\ UNCHANGED <<ips, urls, hashes, subnets>>

IndexUrl ==
    /\ signatures[next].ioc_type = "url"
    /\ urls' = Inserted(urls, NormalizeUrl[signatures[next].value], next)
    /\ UNCHANGED <<ips, domains, hashes, subnets>>

IndexHash ==
    /\ signatures[next].ioc_type = "sha256"
    /\ hashes' = Inserted(hashes, Lower[signatures[next].value], next)
    /\ UNCHANGED <<ips, domains, urls, subnets>>

Index ==
    /\ phase = "build"
    /\ next <= Len(signatures)
    /\ IndexIp \/ IndexDomain \/ IndexUrl \/ IndexHash
    /\ next' = next + 1
    /\ UNCHANGED <<entries, signatures, flows, phase, detections, counts, emitted, tally>>

\* The maps are complete; the event that tells so is emitted.
Built ==
    /\ phase = "build"
    /\ next > Len(signatures)
    /\ phase' = "match"
    /\ next' = 1
    /\ emitted' = emitted + 1
    /\ UNCHANGED <<entries, signatures, flows, sigSet, detections, counts, tally>>

-----------------------------------------------------------------------------
(***************************************************************************)
(* classify                                                                *)
(***************************************************************************)

Lookup(map, key) == IF key \in DOMAIN map THEN map[key] ELSE None

\* Mutant: the name of the flow is looked up as it is written.
HitsCaseSensitive(flow) == <<
    IF flow.url = None THEN None ELSE Lookup(urls, NormalizeUrl[flow.url]),
    IF flow.hostname = None THEN None ELSE Lookup(domains, flow.hostname),
    Lookup(ips, flow.dst_ip),
    Lookup(ips, flow.src_ip),
    IF flow.payload_sha256 = None THEN None
                                  ELSE Lookup(hashes, flow.payload_sha256)>>

\* Mutant: the source is looked up before the destination.
HitsSourceFirst(flow) == <<
    IF flow.url = None THEN None ELSE Lookup(urls, NormalizeUrl[flow.url]),
    IF flow.hostname = None THEN None ELSE Lookup(domains, Lower[flow.hostname]),
    Lookup(ips, flow.src_ip),
    Lookup(ips, flow.dst_ip),
    IF flow.payload_sha256 = None THEN None
                                  ELSE Lookup(hashes, flow.payload_sha256)>>

\* What the exact matches find, in the order in which they are tried.  The
\* digest of a payload is lower case as it is computed.
Hits(flow) == <<
    IF flow.url = None THEN None ELSE Lookup(urls, NormalizeUrl[flow.url]),
    IF flow.hostname = None THEN None ELSE Lookup(domains, Lower[flow.hostname]),
    Lookup(ips, flow.dst_ip),
    Lookup(ips, flow.src_ip),
    IF flow.payload_sha256 = None THEN None
                                  ELSE Lookup(hashes, flow.payload_sha256)>>

\* The first match that finds something returns.
FirstHit(flow) ==
    IF \A i \in 1 .. 5 : Hits(flow)[i] = None
    THEN None
    ELSE LET first == CHOOSE i \in 1 .. 5 :
                 /\ Hits(flow)[i] # None
                 /\ \A j \in 1 .. i - 1 : Hits(flow)[j] = None
         IN  Hits(flow)[first]

Reasons(flow) ==
    (IF flow.hostname \in Entropic THEN {"dga"} ELSE {}) \cup
    (IF flow.dst_port \in SUSPICIOUS_PORTS THEN {"port"} ELSE {}) \cup
    (IF Subnet24[flow.dst_ip] \in subnets THEN {"subnet"} ELSE {})

Classify(flow) ==
    LET hit == FirstHit(flow) IN
    [flow |-> flow,
     verdict |-> IF hit # None THEN "Malicious"
                 ELSE IF Reasons(flow) # {} THEN "Suspicious" ELSE "Benign",
     matched_signature |-> hit,
     reasons |-> IF hit # None THEN {"match"} ELSE Reasons(flow)]

\* Mutant: the IPS action is not told.
EventsWithoutAction == [Benign |-> 0, Suspicious |-> 1, Malicious |-> 1]

\* The events for one flow: a malicious one has an IPS action, which is told
\* in an event of its own.
EventsFor == [Benign |-> 0, Suspicious |-> 1, Malicious |-> 2]

\* One turn of the loop of run_detection.
Match ==
    LET detection == Classify(flows[next]) IN
    /\ phase = "match"
    /\ next <= Len(flows)
    /\ detections' = Append(detections, detection)
    /\ counts' = [counts EXCEPT ![detection.verdict] = @ + 1]
    /\ emitted' = emitted + EventsFor[detection.verdict]
    /\ next' = next + 1
    /\ UNCHANGED <<entries, signatures, flows, phase, sigSet, tally>>

\* The summary is told in an event, and the detections go to the store.
Matched ==
    /\ phase = "match"
    /\ next > Len(flows)
    /\ emitted' = emitted + 1
    /\ phase' = "tally"
    /\ next' = 1
    /\ UNCHANGED <<entries, signatures, flows, sigSet, detections, counts, tally>>

\* One turn of the loop of build_report.
Tally ==
    /\ phase = "tally"
    /\ next <= Len(detections)
    /\ tally' = [tally EXCEPT ![detections[next].verdict] = @ + 1]
    /\ next' = next + 1
    /\ UNCHANGED <<entries, signatures, flows, phase, sigSet, detections, counts, emitted>>

Tallied ==
    /\ phase = "tally"
    /\ next > Len(detections)
    /\ phase' = "done"
    /\ UNCHANGED <<entries, signatures, flows, next, sigSet, detections, counts, emitted,
                   tally>>

Next == Convert \/ Load \/ Index \/ Built \/ Match \/ Matched \/ Tally \/ Tallied

Spec == Init /\ [][Next]_vars

-----------------------------------------------------------------------------
(***************************************************************************)
(* Properties                                                              *)
(***************************************************************************)

(***************************************************************************)
(* The variables keep their types; a map holds indices of signatures that  *)
(* were indexed already.                                                   *)
(***************************************************************************)
TypeOK ==
    /\ entries \in Seq(Entries)
    /\ signatures \in Seq(Signatures)
    /\ flows \in Seq(Flows)
    /\ phase \in {"convert", "build", "match", "tally", "done"}
    /\ next \in Nat \ {0}
    /\ \A map \in {ips, domains, urls, hashes} :
          \A key \in DOMAIN map : map[key] \in 1 .. Len(signatures)
    /\ DOMAIN ips \subseteq Ips
    /\ DOMAIN domains \cup DOMAIN hashes \subseteq Names \cup Hashes
    /\ DOMAIN urls \subseteq Urls
    /\ subnets \subseteq Subnets
    /\ Len(detections) <= Len(flows)
    /\ counts \in [Verdicts -> Nat]
    /\ emitted \in Nat
    /\ tally \in [Verdicts -> Nat]

(***************************************************************************)
(* What it means, without maps, that signature i indicates a flow by the   *)
(* criterion c; a smaller c has priority.                                  *)
(***************************************************************************)
Indicates(i, flow, c) ==
    LET sig == signatures[i] IN
    \/ /\ c = 1 /\ sig.ioc_type = "url" /\ flow.url # None
       /\ NormalizeUrl[sig.value] = NormalizeUrl[flow.url]
    \/ /\ c = 2 /\ sig.ioc_type = "domain" /\ flow.hostname # None
       /\ Lower[sig.value] = Lower[flow.hostname]
    \/ /\ c = 3 /\ sig.ioc_type = "ip" /\ ParseIp[sig.value] = flow.dst_ip
    \/ /\ c = 4 /\ sig.ioc_type = "ip" /\ ParseIp[sig.value] = flow.src_ip
    \/ /\ c = 5 /\ sig.ioc_type = "sha256"
       /\ Lower[sig.value] = flow.payload_sha256

Indicated(flow) ==
    \E i \in DOMAIN signatures, c \in 1 .. 5 : Indicates(i, flow, c)

NearIndicator(flow) ==
    \E i \in DOMAIN signatures :
        /\ signatures[i].ioc_type = "ip"
        /\ ParseIp[signatures[i].value] # None
        /\ Subnet24[ParseIp[signatures[i].value]] # None
        /\ Subnet24[ParseIp[signatures[i].value]] = Subnet24[flow.dst_ip]

(***************************************************************************)
(* Every flow gets one detection, in the order of the flows, and the       *)
(* verdict is the one that the list of signatures calls for: malicious if  *)
(* and only if some signature indicates the flow by some criterion; else   *)
(* suspicious if and only if a heuristic fires, and then with a reason.    *)
(***************************************************************************)
VerdictsAreRight ==
    phase \in {"tally", "done"} =>
        /\ Len(detections) = Len(flows)
        /\ \A k \in DOMAIN flows :
              LET flow == flows[k]
                  odd  == \/ flow.hostname \in Entropic
                          \/ flow.dst_port \in SUSPICIOUS_PORTS
                          \/ NearIndicator(flow)
              IN  /\ detections[k].flow = flow
                  /\ detections[k].verdict = "Malicious" <=> Indicated(flow)
                  /\ detections[k].verdict = "Suspicious" <=>
                        odd /\ ~Indicated(flow)
                  /\ detections[k].reasons = {} <=>
                        detections[k].verdict = "Benign"

(***************************************************************************)
(* A malicious flow names the signature that has priority: by URL before   *)
(* domain before destination before source before payload, and of the      *)
(* signatures with one and the same key the last one of the list.          *)
(***************************************************************************)
BestSignatureNamed ==
    phase \in {"tally", "done"} =>
        \A k \in DOMAIN flows :
            detections[k].verdict = "Malicious" =>
                \E i \in DOMAIN signatures, c \in 1 .. 5 :
                    /\ detections[k].matched_signature = i
                    /\ Indicates(i, flows[k], c)
                    /\ \A j \in DOMAIN signatures, d \in 1 .. 5 :
                          Indicates(j, flows[k], d) => d > c \/ (d = c /\ j <= i)

(***************************************************************************)
(* The summary that run_detection returns and prints, the report that is   *)
(* built of the store afterwards and the log that the dashboard shows tell *)
(* the same story.                                                         *)
(***************************************************************************)
SummaryReportAndLogAgree ==
    phase = "done" =>
        /\ tally = counts
        /\ tally["Benign"] + tally["Suspicious"] + tally["Malicious"] = Len(flows)
        /\ emitted = 2 + tally["Suspicious"] + 2 * tally["Malicious"]

-----------------------------------------------------------------------------

\* What it means that an entry of a feed is about a flow.
About(entry, flow) ==
    LET ends == {flow.dst_ip, flow.src_ip}
        NameIs(text) == flow.hostname # None /\ Lower[text] = Lower[flow.hostname]
        UrlIs(text) == flow.url # None /\ NormalizeUrl[text] = NormalizeUrl[flow.url]
    IN  IF entry.feed = "urlhaus"
        THEN /\ entry.url # None
             /\ \/ UrlIs(entry.url)
                \/ entry.host \in IpTexts /\ ParseIp[entry.host] \in ends
                \/ entry.host \in Names /\ NameIs(entry.host)
        ELSE /\ entry.ioc # None
             /\ \/ entry.ioc_type = "ip:port" /\ AddressOf[entry.ioc] \in ends
                \/ entry.ioc_type = "domain" /\ NameIs(entry.ioc)
                \/ entry.ioc_type = "url" /\ UrlIs(entry.ioc)
                \/ /\ entry.ioc_type = "sha256_hash"
                   /\ Lower[entry.ioc] = flow.payload_sha256

\* ThreatFox writes an IPv6 address with a port.
IsIpv6Endpoint(entry) ==
    /\ entry.feed = "threatfox"
    /\ entry.ioc_type = "ip:port"
    /\ entry.ioc # None
    /\ Subnet24[AddressOf[entry.ioc]] = None

(***************************************************************************)
(* What the feeds report is found: a flow that some entry is about is      *)
(* malicious, through the conversion, the maps and the lookup, whatever    *)
(* else the feeds report; and a set that came of the feeds makes no other  *)
(* flow malicious.  The exception is an IPv6 endpoint of ThreatFox, which  *)
(* is cut at its first colon and stored as an indicator that never fires.  *)
(***************************************************************************)
FeedIndicatorsFire ==
    phase \in {"tally", "done"} =>
        \A k \in DOMAIN flows :
            LET about == {e \in {entries[i] : i \in DOMAIN entries} :
                             About(e, flows[k]) /\ ~IsIpv6Endpoint(e)}
                fed   == \E i \in DOMAIN entries : Converted(entries[i]) # <<>>
            IN  /\ about # {} => detections[k].verdict = "Malicious"
                /\ fed /\ detections[k].verdict = "Malicious" => about # {}

=============================================================================
