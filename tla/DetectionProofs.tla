--------------------------- MODULE DetectionProofs ---------------------------
(***************************************************************************)
(* Proofs about Detection: what the feeds report is found, the maps give   *)
(* the verdict that the list of signatures calls for, and the counts       *)
(* agree, for any entries, signatures and flows.                           *)
(***************************************************************************)
EXTENDS Detection, FiniteSetTheorems, TLAPS

USE TextAssumption, NoneAssumption, ConversionAssumption

Detections == [flow : Flows, verdict : Verdicts,
               matched_signature : Optional(Nat),
               reasons : SUBSET {"match", "dga", "port", "subnet"}]

Types ==
    /\ entries \in Seq(Entries)
    /\ signatures \in Seq(Signatures)
    /\ flows \in Seq(Flows)
    /\ phase \in {"convert", "build", "match", "tally", "done"}
    /\ next \in Nat \ {0}
    /\ detections \in Seq(Detections)
    /\ counts \in [Verdicts -> Nat]
    /\ emitted \in Nat
    /\ tally \in [Verdicts -> Nat]

\* How far each loop has got.
Places ==
    /\ phase = "convert" => next <= Len(entries) + 1
    /\ phase = "build" => next <= Len(signatures) + 1
    /\ phase \in {"convert", "build"} => Len(detections) = 0
    /\ phase = "match" => next = Len(detections) + 1 /\ next <= Len(flows) + 1
    /\ phase = "tally" => next <= Len(detections) + 1
    /\ phase = "done" => next = Len(detections) + 1
    /\ phase \in {"tally", "done"} => Len(detections) = Len(flows)

\* The entries that were converted, and the signatures that were indexed.
Heard == IF phase = "convert" THEN next - 1 ELSE Len(entries)

Indexed ==
    IF phase = "convert" THEN 0
    ELSE IF phase = "build" THEN next - 1 ELSE Len(signatures)

\* An entry gave this signature.
Gave(entry, sig) ==
    \E j \in 1 .. Len(Converted(entry)) : Converted(entry)[j] = sig

\* The signatures come of the entries, unless no entry gave one.
FromFeeds ==
    /\ \A e \in 1 .. Heard : \A sig \in Signatures :
          Gave(entries[e], sig) => \E i \in 1 .. Len(signatures) : signatures[i] = sig
    /\ \/ \A i \in 1 .. Len(signatures) :
             \E e \in 1 .. Heard : Gave(entries[e], signatures[i])
       \/ /\ phase # "convert"
          /\ \A e \in 1 .. Len(entries) : Converted(entries[e]) = <<>>

\* The key of each signature in each map.
IpKey(sig) == IF sig.ioc_type = "ip" THEN ParseIp[sig.value] ELSE None
DomainKey(sig) == IF sig.ioc_type = "domain" THEN Lower[sig.value] ELSE None
UrlKey(sig) == IF sig.ioc_type = "url" THEN NormalizeUrl[sig.value] ELSE None
HashKey(sig) == IF sig.ioc_type = "sha256" THEN Lower[sig.value] ELSE None

IpKeys(k) == [i \in 1 .. k |-> IpKey(signatures[i])]
DomainKeys(k) == [i \in 1 .. k |-> DomainKey(signatures[i])]
UrlKeys(k) == [i \in 1 .. k |-> UrlKey(signatures[i])]
HashKeys(k) == [i \in 1 .. k |-> HashKey(signatures[i])]

\* A map holds, of each of the first k keys, the last signature that has it.
Mirrors(map, key, k) ==
    /\ \A x \in DOMAIN map :
          /\ map[x] \in 1 .. k
          /\ key[map[x]] = x
          /\ x # None
          /\ \A i \in 1 .. k : key[i] = x => i <= map[x]
    /\ \A i \in 1 .. k : key[i] # None => key[i] \in DOMAIN map

MapsRight(k) ==
    /\ Mirrors(ips, IpKeys(k), k)
    /\ Mirrors(domains, DomainKeys(k), k)
    /\ Mirrors(urls, UrlKeys(k), k)
    /\ Mirrors(hashes, HashKeys(k), k)
    /\ \A s : s \in subnets <=>
          /\ s # None
          /\ \E i \in 1 .. k :
                IpKeys(k)[i] # None /\ Subnet24[IpKeys(k)[i]] = s

Odd(flow) ==
    \/ flow.hostname \in Entropic
    \/ flow.dst_port \in SUSPICIOUS_PORTS
    \/ NearIndicator(flow)

\* What VerdictsAreRight and BestSignatureNamed say of one detection.
VerdictRight(detection, flow) ==
    /\ detection.flow = flow
    /\ detection.verdict = "Malicious" <=> Indicated(flow)
    /\ detection.verdict = "Suspicious" <=> Odd(flow) /\ ~Indicated(flow)
    /\ detection.reasons = {} <=> detection.verdict = "Benign"

NamedRight(detection, flow) ==
    detection.verdict = "Malicious" =>
        \E i \in DOMAIN signatures, c \in 1 .. 5 :
            /\ detection.matched_signature = i
            /\ Indicates(i, flow, c)
            /\ \A j \in DOMAIN signatures, d \in 1 .. 5 :
                  Indicates(j, flow, d) => d > c \/ (d = c /\ j <= i)

Judged ==
    \A k \in 1 .. Len(detections) :
        VerdictRight(detections[k], flows[k]) /\ NamedRight(detections[k], flows[k])

\* Those of the first k detections that have a verdict.
Having(found, v, k) == {i \in 1 .. k : found[i].verdict = v}

Counted ==
    /\ \A v \in Verdicts : counts[v] = Cardinality(Having(detections, v, Len(detections)))
    /\ counts["Benign"] + counts["Suspicious"] + counts["Malicious"]
          = Len(detections)
    /\ emitted = (IF phase \in {"convert", "build"} THEN 0
                  ELSE IF phase = "match" THEN 1 ELSE 2)
                 + counts["Suspicious"] + 2 * counts["Malicious"]
    /\ phase \in {"tally", "done"} =>
          \A v \in Verdicts : tally[v] = Cardinality(Having(detections, v, next - 1))
    /\ phase \notin {"tally", "done"} => tally = Zero

IInv ==
    /\ Types
    /\ Places
    /\ FromFeeds
    /\ MapsRight(Indexed)
    /\ Judged
    /\ Counted

-----------------------------------------------------------------------------
(***************************************************************************)
(* Signatures, entries and keys                                            *)
(***************************************************************************)

(* The kinds of signatures. *)
LEMMA SignatureKinds ==
    ASSUME NEW sig \in Signatures
    PROVE  \/ sig.ioc_type = "ip" /\ sig.value \in IpTexts
           \/ sig.ioc_type = "domain" /\ sig.value \in Names
           \/ sig.ioc_type = "url" /\ sig.value \in Urls
           \/ sig.ioc_type = "sha256" /\ sig.value \in Hashes
BY DEF Signatures, Signature

(* A signature has at most the key of its kind, which is not None unless it  *)
(* is a text that is no address.                                             *)
LEMMA KeyTypes ==
    ASSUME NEW sig \in Signatures
    PROVE  /\ IpKey(sig) \in Optional(Ips)
           /\ DomainKey(sig) # None <=> sig.ioc_type = "domain"
           /\ UrlKey(sig) # None <=> sig.ioc_type = "url"
           /\ HashKey(sig) # None <=> sig.ioc_type = "sha256"
           /\ DomainKey(sig) \in Optional(Names)
           /\ UrlKey(sig) \in Optional(Urls)
           /\ HashKey(sig) \in Optional(Hashes)
BY SignatureKinds DEF IpKey, DomainKey, UrlKey, HashKey, Optional

(* What an entry of ThreatFox becomes. *)
LEMMA ThreatFoxGives ==
    ASSUME NEW entry \in Entries, entry.feed = "threatfox"
    PROVE  FromThreatFox(entry) \in Seq(Signatures)
<1>1. \/ entry.ioc_type = "ip:port" /\ entry.ioc \in Optional(Endpoints)
      \/ entry.ioc_type = "domain" /\ entry.ioc \in Optional(Names)
      \/ entry.ioc_type = "url" /\ entry.ioc \in Optional(Urls)
      \/ entry.ioc_type = "sha256_hash" /\ entry.ioc \in Optional(Hashes)
      \/ entry.ioc_type = "md5_hash" /\ entry.ioc \in Optional(Hashes)
  BY DEF Entries, ThreatFoxIoc
<1>2. CASE entry.ioc = None
  BY <1>2 DEF FromThreatFox
<1>3. CASE entry.ioc_type = "ip:port" /\ entry.ioc \in Endpoints
  <2>1. BeforeColon[entry.ioc] \in IpTexts
    BY <1>3
  <2>2. Signature("ip", BeforeColon[entry.ioc]) \in Signatures
    BY <2>1 DEF Signatures
  <2>3. FromThreatFox(entry) = <<Signature("ip", BeforeColon[entry.ioc])>>
    BY <1>3 DEF FromThreatFox
  <2>4. QED
    BY <2>2, <2>3
<1>4. CASE entry.ioc_type = "domain" /\ entry.ioc \in Names
  <2>1. Signature("domain", Lower[entry.ioc]) \in Signatures
    BY <1>4 DEF Signatures
  <2>2. FromThreatFox(entry) = <<Signature("domain", Lower[entry.ioc])>>
    BY <1>4 DEF FromThreatFox
  <2>3. QED
    BY <2>1, <2>2
<1>5. CASE entry.ioc_type = "url" /\ entry.ioc \in Urls
  <2>1. Signature("url", entry.ioc) \in Signatures
    BY <1>5 DEF Signatures
  <2>2. FromThreatFox(entry) = <<Signature("url", entry.ioc)>>
    BY <1>5 DEF FromThreatFox
  <2>3. QED
    BY <2>1, <2>2
<1>6. CASE entry.ioc_type = "sha256_hash" /\ entry.ioc \in Hashes
  <2>1. Signature("sha256", Lower[entry.ioc]) \in Signatures
    BY <1>6 DEF Signatures
  <2>2. FromThreatFox(entry) = <<Signature("sha256", Lower[entry.ioc])>>
    BY <1>6 DEF FromThreatFox
  <2>3. QED
    BY <2>1, <2>2
<1>7. CASE entry.ioc_type = "md5_hash"
  BY <1>7 DEF FromThreatFox
<1>8. QED
  BY <1>1, <1>2, <1>3, <1>4, <1>5, <1>6, <1>7 DEF Optional

(* What an entry of URLhaus becomes. *)
LEMMA UrlhausGives ==
    ASSUME NEW entry \in Entries, entry.feed # "threatfox"
    PROVE  FromUrlhaus(entry) \in Seq(Signatures)
<1>1. entry.url \in Optional(Urls) /\ entry.host \in Optional(Hosts)
  BY DEF Entries, ThreatFoxIoc
<1>2. ASSUME NEW host \in Hosts
      PROVE  HostSignature(host) \in Signatures
  BY <1>2 DEF Hosts, HostSignature, Signatures
<1>3. entry.url # None => Signature("url", entry.url) \in Signatures
  BY <1>1 DEF Optional, Signatures
<1>4. CASE entry.url = None
  BY <1>4 DEF FromUrlhaus
<1>5. CASE entry.url # None /\ entry.host = None
  BY <1>3, <1>5 DEF FromUrlhaus
<1>6. CASE entry.url # None /\ entry.host # None
  <2>1. HostSignature(entry.host) \in Signatures
    BY <1>1, <1>2, <1>6 DEF Optional
  <2>2. FromUrlhaus(entry)
          = <<Signature("url", entry.url)>> \o <<HostSignature(entry.host)>>
    BY <1>6 DEF FromUrlhaus
  <2>3. QED
    BY <1>3, <1>6, <2>1, <2>2
<1>7. QED
  BY <1>4, <1>5, <1>6

(* What an entry becomes is a sequence of signatures. *)
LEMMA EntryGives ==
    ASSUME NEW entry \in Entries
    PROVE  Converted(entry) \in Seq(Signatures)
BY ThreatFoxGives, UrlhausGives DEF Converted

-----------------------------------------------------------------------------
(***************************************************************************)
(* Maps                                                                    *)
(***************************************************************************)

(* A signature whose key goes into the map.                                  *)
LEMMA MirrorGrows ==
    ASSUME NEW map, NEW k \in Nat, NEW key, NEW more, NEW x,
           x # None, Mirrors(map, key, k),
           \A i \in 1 .. k : more[i] = key[i], more[k + 1] = x
    PROVE  Mirrors(Inserted(map, x, k + 1), more, k + 1)
<1> DEFINE after == Inserted(map, x, k + 1)
<1>1. /\ DOMAIN after = DOMAIN map \cup {x}
      /\ after[x] = k + 1
      /\ \A y \in DOMAIN map : y # x => after[y] = map[y]
  BY DEF Inserted
<1> HIDE DEF after
<1>2. \A i \in 1 .. k + 1 : i \in 1 .. k \/ i = k + 1
  OBVIOUS
<1>3. ASSUME NEW y \in DOMAIN after
      PROVE  /\ after[y] \in 1 .. k + 1
             /\ more[after[y]] = y
             /\ y # None
             /\ \A i \in 1 .. k + 1 : more[i] = y => i <= after[y]
  <2>1. CASE y = x
    BY <1>1, <2>1
  <2>2. CASE y # x
    <3>1. y \in DOMAIN map /\ after[y] = map[y]
      BY <1>1, <2>2
    <3>2. /\ map[y] \in 1 .. k /\ key[map[y]] = y /\ y # None
          /\ \A i \in 1 .. k : key[i] = y => i <= map[y]
      BY <3>1 DEF Mirrors
    <3>3. QED
      BY <1>2, <2>2, <3>1, <3>2
  <2>3. QED
    BY <2>1, <2>2
<1>4. \A i \in 1 .. k + 1 : more[i] # None => more[i] \in DOMAIN after
  BY <1>1, <1>2 DEF Mirrors
<1>5. QED
  BY <1>3, <1>4 DEF Mirrors, after

(* A signature that has no key in the map. *)
LEMMA MirrorStays ==
    ASSUME NEW map, NEW k \in Nat, NEW key, NEW more, Mirrors(map, key, k),
           \A i \in 1 .. k : more[i] = key[i], more[k + 1] = None
    PROVE  Mirrors(map, more, k + 1)
<1>1. \A i \in 1 .. k + 1 : i \in 1 .. k \/ i = k + 1
  OBVIOUS
<1>2. \A y \in DOMAIN map : y # None /\ map[y] \in 1 .. k + 1
  BY DEF Mirrors
<1>3. QED
  BY <1>1, <1>2 DEF Mirrors

\* The last of k keys that is y, or None.
IsLastKey(hit, key, k, y) ==
    /\ hit # None <=> \E i \in 1 .. k : key[i] = y
    /\ hit # None =>
          /\ hit \in 1 .. k
          /\ key[hit] = y
          /\ \A i \in 1 .. k : key[i] = y => i <= hit

(* A lookup finds the last signature that has the key. *)
LEMMA LookupRight ==
    ASSUME NEW map, NEW k \in Nat, NEW key, NEW y, y # None,
           Mirrors(map, key, k)
    PROVE  IsLastKey(Lookup(map, y), key, k, y)
<1>1. CASE y \in DOMAIN map
  <2>1. Lookup(map, y) = map[y] /\ map[y] \in 1 .. k
    BY <1>1 DEF Lookup, Mirrors
  <2>2. map[y] # None
    BY <2>1
  <2>3. QED
    BY <1>1, <2>1, <2>2 DEF Mirrors, IsLastKey
<1>2. CASE y \notin DOMAIN map
  BY <1>2 DEF Lookup, Mirrors, IsLastKey
<1>3. QED
  BY <1>1, <1>2

(* The keys of one signature more. *)
LEMMA KeysGrow ==
    ASSUME NEW k \in Nat
    PROVE  /\ \A i \in 1 .. k :
                 /\ IpKeys(k + 1)[i] = IpKeys(k)[i]
                 /\ DomainKeys(k + 1)[i] = DomainKeys(k)[i]
                 /\ UrlKeys(k + 1)[i] = UrlKeys(k)[i]
                 /\ HashKeys(k + 1)[i] = HashKeys(k)[i]
           /\ IpKeys(k + 1)[k + 1] = IpKey(signatures[k + 1])
           /\ DomainKeys(k + 1)[k + 1] = DomainKey(signatures[k + 1])
           /\ UrlKeys(k + 1)[k + 1] = UrlKey(signatures[k + 1])
           /\ HashKeys(k + 1)[k + 1] = HashKey(signatures[k + 1])
<1>1. k + 1 \in 1 .. k + 1 /\ \A i \in 1 .. k : i \in 1 .. k + 1
  OBVIOUS
<1>2. QED
  BY <1>1 DEF IpKeys, DomainKeys, UrlKeys, HashKeys

-----------------------------------------------------------------------------
(***************************************************************************)
(* classify                                                                *)
(***************************************************************************)

\* The last signature that indicates a flow by a criterion, or None.
IsLast(hit, flow, c) ==
    /\ hit # None <=> \E i \in 1 .. Len(signatures) : Indicates(i, flow, c)
    /\ hit # None =>
          /\ hit \in 1 .. Len(signatures)
          /\ Indicates(hit, flow, c)
          /\ \A j \in 1 .. Len(signatures) : Indicates(j, flow, c) => j <= hit

(* Each lookup finds the last signature that indicates the flow by that      *)
(* criterion, if there is one.                                               *)
LEMMA HitRight ==
    ASSUME Types, MapsRight(Len(signatures)), NEW flow \in Flows,
           NEW c \in 1 .. 5
    PROVE  IsLast(Hits(flow)[c], flow, c)
<1> DEFINE n == Len(signatures)
           hit == Hits(flow)[c]
<1>1. n \in Nat /\ n = Len(signatures) /\ \A i \in 1 .. n : signatures[i] \in Signatures
  BY DEF Types
<1>2. /\ flow.src_ip \in Ips /\ flow.dst_ip \in Ips
      /\ flow.hostname \in Optional(Names) /\ flow.url \in Optional(Urls)
      /\ flow.payload_sha256 \in Optional(Hashes)
  BY DEF Flows
<1>3. \A i \in 1 .. n :
         /\ IpKeys(n)[i] = IpKey(signatures[i])
         /\ DomainKeys(n)[i] = DomainKey(signatures[i])
         /\ UrlKeys(n)[i] = UrlKey(signatures[i])
         /\ HashKeys(n)[i] = HashKey(signatures[i])
  BY DEF IpKeys, DomainKeys, UrlKeys, HashKeys
<1>4. /\ Mirrors(urls, UrlKeys(n), n) /\ Mirrors(domains, DomainKeys(n), n)
      /\ Mirrors(ips, IpKeys(n), n) /\ Mirrors(hashes, HashKeys(n), n)
  BY DEF MapsRight
<1> HIDE DEF n
<1>5. CASE c = 1
  <2>1. CASE flow.url = None
    BY <1>5, <2>1 DEF Hits, Indicates, IsLast
  <2>2. CASE flow.url # None
    <3> DEFINE y == NormalizeUrl[flow.url]
    <3>1. y # None
      BY <1>2, <2>2 DEF Optional
    <3>2. hit = Lookup(urls, y)
      BY <1>5, <2>2 DEF Hits
    <3> HIDE DEF hit
    <3>3. ASSUME NEW i \in 1 .. n
          PROVE  Indicates(i, flow, c) <=> UrlKeys(n)[i] = y
      BY <1>3, <1>5, <2>2, <3>1 DEF Indicates, UrlKey
    <3>4. IsLastKey(hit, UrlKeys(n), n, y)
      BY <1>1, <1>4, <3>1, <3>2, LookupRight
    <3>5. IsLast(hit, flow, c)
      BY <1>1, <3>3, <3>4 DEF IsLast, IsLastKey
    <3>6. QED
      BY <3>5 DEF hit
  <2>3. QED
    BY <2>1, <2>2
<1>6. CASE c = 2
  <2>1. CASE flow.hostname = None
    BY <1>6, <2>1 DEF Hits, Indicates, IsLast
  <2>2. CASE flow.hostname # None
    <3> DEFINE y == Lower[flow.hostname]
    <3>1. y # None
      BY <1>2, <2>2 DEF Optional
    <3>2. hit = Lookup(domains, y)
      BY <1>6, <2>2 DEF Hits
    <3> HIDE DEF hit
    <3>3. ASSUME NEW i \in 1 .. n
          PROVE  Indicates(i, flow, c) <=> DomainKeys(n)[i] = y
      BY <1>3, <1>6, <2>2, <3>1 DEF Indicates, DomainKey
    <3>4. IsLastKey(hit, DomainKeys(n), n, y)
      BY <1>1, <1>4, <3>1, <3>2, LookupRight
    <3>5. IsLast(hit, flow, c)
      BY <1>1, <3>3, <3>4 DEF IsLast, IsLastKey
    <3>6. QED
      BY <3>5 DEF hit
  <2>3. QED
    BY <2>1, <2>2
<1>7. ASSUME NEW y \in Ips, hit = Lookup(ips, y),
             c \in {3, 4}, y = IF c = 3 THEN flow.dst_ip ELSE flow.src_ip
      PROVE  IsLast(hit, flow, c)
  <2>1. y # None
    BY <1>7
  <2> HIDE DEF hit
  <2>2. ASSUME NEW i \in 1 .. n
        PROVE  Indicates(i, flow, c) <=> IpKeys(n)[i] = y
    BY <1>3, <1>7, <2>1 DEF Indicates, IpKey
  <2>3. IsLastKey(hit, IpKeys(n), n, y)
    BY <1>1, <1>4, <1>7, <2>1, LookupRight
  <2>4. QED
    BY <1>1, <2>2, <2>3 DEF IsLast, IsLastKey
<1>8. CASE c = 3
  BY <1>2, <1>7, <1>8 DEF Hits
<1>9. CASE c = 4
  BY <1>2, <1>7, <1>9 DEF Hits
<1>10. CASE c = 5
  <2>1. CASE flow.payload_sha256 = None
    <3>1. \A i \in 1 .. n : ~Indicates(i, flow, c)
      BY <1>1, <1>10, <2>1, SignatureKinds DEF Indicates
    <3>2. QED
      BY <1>1, <1>10, <2>1, <3>1 DEF Hits, IsLast
  <2>2. CASE flow.payload_sha256 # None
    <3> DEFINE y == flow.payload_sha256
    <3>1. hit = Lookup(hashes, y)
      BY <1>10, <2>2 DEF Hits
    <3> HIDE DEF hit
    <3>2. ASSUME NEW i \in 1 .. n
          PROVE  Indicates(i, flow, c) <=> HashKeys(n)[i] = y
      BY <1>3, <1>10, <2>2 DEF Indicates, HashKey
    <3>3. IsLastKey(hit, HashKeys(n), n, y)
      BY <1>1, <1>4, <2>2, <3>1, LookupRight
    <3>4. IsLast(hit, flow, c)
      BY <1>1, <3>2, <3>3 DEF IsLast, IsLastKey
    <3>5. QED
      BY <3>4 DEF hit
  <2>3. QED
    BY <2>1, <2>2
<1>11. QED
  BY <1>5, <1>6, <1>8, <1>9, <1>10

(* The heuristic of the network fires for what is close to an indicator.    *)
LEMMA NearRight ==
    ASSUME Types, MapsRight(Len(signatures)), NEW flow \in Flows
    PROVE  Subnet24[flow.dst_ip] \in subnets <=> NearIndicator(flow)
<1> DEFINE n == Len(signatures)
<1>1. n \in Nat /\ DOMAIN signatures = 1 .. n
      /\ \A i \in 1 .. n : signatures[i] \in Signatures
  BY DEF Types
<1>2. \A i \in 1 .. n : IpKeys(n)[i] = IpKey(signatures[i])
  BY DEF IpKeys
<1>3. \A s : s \in subnets <=>
         s # None /\ \E i \in 1 .. n : IpKeys(n)[i] # None /\ Subnet24[IpKeys(n)[i]] = s
  BY DEF MapsRight
<1> HIDE DEF n
<1>4. NearIndicator(flow) <=>
         \E i \in 1 .. n : /\ IpKey(signatures[i]) # None
                           /\ Subnet24[IpKey(signatures[i])] # None
                           /\ Subnet24[IpKey(signatures[i])] = Subnet24[flow.dst_ip]
  BY <1>1 DEF NearIndicator, IpKey
<1>5. QED
  BY <1>2, <1>3, <1>4

\* The signature that the lookups of a flow name.
IsBest(hit, flow) ==
    \E i \in DOMAIN signatures, c \in 1 .. 5 :
        /\ hit = i
        /\ Indicates(i, flow, c)
        /\ \A j \in DOMAIN signatures, d \in 1 .. 5 :
              Indicates(j, flow, d) => d > c \/ (d = c /\ j <= i)

(* The first lookup that finds something finds the signature with priority,  *)
(* and one of them does if any signature indicates the flow.                 *)
LEMMA FirstHitRight ==
    ASSUME Types, MapsRight(Len(signatures)), NEW flow \in Flows
    PROVE  /\ FirstHit(flow) # None <=> Indicated(flow)
           /\ FirstHit(flow) # None => IsBest(FirstHit(flow), flow)
           /\ FirstHit(flow) \in Optional(Nat)
<1> DEFINE n == Len(signatures)
           hit(c) == Hits(flow)[c]
<1>1. n \in Nat /\ DOMAIN signatures = 1 .. n
  BY DEF Types
<1>2. \A c \in 1 .. 5 : IsLast(hit(c), flow, c)
  BY HitRight
<1> HIDE DEF n
<1>3. CASE \A c \in 1 .. 5 : hit(c) = None
  <2>1. FirstHit(flow) = None
    BY <1>3 DEF FirstHit
  <2>2. ~Indicated(flow)
    BY <1>1, <1>2, <1>3 DEF Indicated, IsLast, n
  <2>3. QED
    BY <2>1, <2>2 DEF Optional
<1>4. CASE \E c \in 1 .. 5 : hit(c) # None
  <2> DEFINE IsFirst(c) == hit(c) # None /\ \A d \in 1 .. c - 1 : hit(d) = None
  <2>1. \E c \in 1 .. 5 : IsFirst(c)
    <3> HIDE DEF hit
    <3>1. \/ hit(1) # None \/ hit(2) # None \/ hit(3) # None
          \/ hit(4) # None \/ hit(5) # None
      BY <1>4
    <3>2. QED
      BY <3>1
  <2>2. PICK c \in 1 .. 5 : IsFirst(c) /\ FirstHit(flow) = hit(c)
    <3> DEFINE first == CHOOSE i \in 1 .. 5 : IsFirst(i)
    <3>1. first \in 1 .. 5 /\ IsFirst(first)
      BY <2>1
    <3>2. FirstHit(flow) = hit(first)
      BY <1>4 DEF FirstHit
    <3>3. QED
      BY <3>1, <3>2
  <2> HIDE DEF hit
  <2>3. /\ hit(c) \in 1 .. n /\ Indicates(hit(c), flow, c)
        /\ \A j \in 1 .. n : Indicates(j, flow, c) => j <= hit(c)
    BY <1>2, <2>2 DEF IsLast, n
  <2>4. \A d \in 1 .. 5, j \in 1 .. n :
           Indicates(j, flow, d) => d > c \/ (d = c /\ j <= hit(c))
    <3> SUFFICES ASSUME NEW d \in 1 .. 5, NEW j \in 1 .. n,
                        Indicates(j, flow, d), ~(d > c)
                 PROVE  d = c /\ j <= hit(c)
      OBVIOUS
    <3>1. hit(d) # None
      BY <1>2 DEF IsLast, n
    <3>2. d = c
      BY <2>2, <3>1
    <3>3. QED
      BY <2>3, <3>2
  <2>5. IsBest(hit(c), flow)
    BY <1>1, <2>3, <2>4 DEF IsBest
  <2>6. Indicated(flow)
    BY <1>1, <2>3 DEF Indicated
  <2>7. hit(c) \in Nat /\ hit(c) # None
    BY <1>1, <2>2, <2>3
  <2>8. QED
    BY <2>2, <2>5, <2>6, <2>7 DEF Optional
<1>5. QED
  BY <1>3, <1>4

(* One turn of the loop judges its flow right. *)
LEMMA ClassifyRight ==
    ASSUME Types, MapsRight(Len(signatures)), NEW flow \in Flows
    PROVE  /\ Classify(flow) \in Detections
           /\ VerdictRight(Classify(flow), flow)
           /\ NamedRight(Classify(flow), flow)
<1> DEFINE hit == FirstHit(flow)
<1>1. /\ hit # None <=> Indicated(flow)
      /\ hit # None => IsBest(hit, flow)
      /\ hit \in Optional(Nat)
  BY FirstHitRight
<1>2. /\ Reasons(flow) # {} <=> Odd(flow)
      /\ Reasons(flow) \in SUBSET {"match", "dga", "port", "subnet"}
  BY NearRight DEF Reasons, Odd
<1>3. Classify(flow) =
         [flow |-> flow,
          verdict |-> IF hit # None THEN "Malicious"
                      ELSE IF Reasons(flow) # {} THEN "Suspicious" ELSE "Benign",
          matched_signature |-> hit,
          reasons |-> IF hit # None THEN {"match"} ELSE Reasons(flow)]
  BY DEF Classify
<1> HIDE DEF hit
<1>4. Classify(flow) \in Detections
  BY <1>1, <1>2, <1>3 DEF Detections, Verdicts
<1>5. VerdictRight(Classify(flow), flow)
  BY <1>1, <1>2, <1>3 DEF VerdictRight
<1>6. NamedRight(Classify(flow), flow)
  BY <1>1, <1>3 DEF NamedRight, IsBest
<1>7. QED
  BY <1>4, <1>5, <1>6

-----------------------------------------------------------------------------
(***************************************************************************)
(* Counting                                                                *)
(***************************************************************************)

(* One detection more. *)
LEMMA HavingGrows ==
    ASSUME NEW found, NEW v, NEW k \in Nat
    PROVE  /\ Cardinality(Having(found, v, k)) \in Nat
           /\ Cardinality(Having(found, v, k + 1))
                 = Cardinality(Having(found, v, k))
                   + (IF found[k + 1].verdict = v THEN 1 ELSE 0)
<1> DEFINE S == Having(found, v, k)
<1>1. IsFiniteSet(S)
  <2>1. IsFiniteSet(1 .. k)
    BY FS_Interval
  <2>2. S \subseteq 1 .. k
    BY DEF Having
  <2>3. QED
    BY <2>1, <2>2, FS_Subset
<1>2. Cardinality(S) \in Nat
  BY <1>1, FS_CardinalityType
<1>3. k + 1 \notin S /\ \A i \in 1 .. k + 1 : i \in 1 .. k \/ i = k + 1
  BY DEF Having
<1>4. CASE found[k + 1].verdict = v
  <2>1. Having(found, v, k + 1) = S \cup {k + 1}
    BY <1>3, <1>4 DEF Having
  <2>2. Cardinality(S \cup {k + 1}) = Cardinality(S) + 1
    BY <1>1, <1>3, FS_AddElement
  <2>3. QED
    BY <1>2, <1>4, <2>1, <2>2
<1>5. CASE found[k + 1].verdict # v
  <2>1. Having(found, v, k + 1) = S
    BY <1>3, <1>5 DEF Having
  <2>2. QED
    BY <1>2, <1>5, <2>1
<1>6. QED
  BY <1>4, <1>5

(* Of no detections none has a verdict. *)
LEMMA HavingNone ==
    ASSUME NEW found, NEW v
    PROVE  Cardinality(Having(found, v, 0)) = 0
<1>1. Having(found, v, 0) = {}
  BY DEF Having
<1>2. QED
  BY <1>1, FS_EmptySet

(* What was counted stays so when detections are appended. *)
LEMMA HavingAppended ==
    ASSUME NEW found \in Seq(Detections), NEW d \in Detections, NEW v,
           NEW k \in 0 .. Len(found)
    PROVE  Having(Append(found, d), v, k) = Having(found, v, k)
BY DEF Having

-----------------------------------------------------------------------------
(***************************************************************************)
(* The steps                                                               *)
(***************************************************************************)

(* Before anything is indexed, the maps are empty, whatever the signatures.  *)
LEMMA MirrorsNothing ==
    ASSUME NEW map, NEW key, NEW more, Mirrors(map, key, 0)
    PROVE  Mirrors(map, more, 0)
BY DEF Mirrors

(* The initial states satisfy the invariant. *)
LEMMA InitEstablishes == Init => IInv
<1> SUFFICES ASSUME Init
             PROVE  IInv
  OBVIOUS
<1>1. Types
  BY ListAssumption DEF Init, Types, Zero, Verdicts
<1>2. Len(entries) \in Nat
  BY <1>1 DEF Types
<1>3. Places
  BY <1>2 DEF Init, Places
<1>4. FromFeeds
  BY DEF Init, FromFeeds, Heard
<1>5. MapsRight(Indexed)
  <2>1. Indexed = 0 /\ DOMAIN <<>> = {}
    BY DEF Init, Indexed
  <2>2. QED
    BY <2>1 DEF Init, MapsRight, Mirrors
<1>6. Judged
  BY DEF Init, Judged
<1>7. Counted
  BY HavingNone DEF Init, Counted, Zero, Verdicts
<1>8. QED
  BY <1>1, <1>3, <1>4, <1>5, <1>6, <1>7 DEF IInv

(* Steps that leave signatures, flows and detections alone leave the        *)
(* judgement alone.                                                         *)
LEMMA JudgedStays ==
    ASSUME Judged, UNCHANGED <<signatures, flows, detections>>
    PROVE  Judged'
BY DEF Judged, VerdictRight, NamedRight, Indicated, Indicates, Odd, NearIndicator

(* No detections, nothing to judge. *)
LEMMA NothingJudged ==
    ASSUME Len(detections') = 0
    PROVE  Judged'
BY DEF Judged

(* Nothing is indexed before and after. *)
LEMMA NothingIndexed ==
    ASSUME MapsRight(0), UNCHANGED sigSet
    PROVE  MapsRight(0)'
BY MirrorsNothing DEF MapsRight, sigSet

(* The maps do not change, nor does what they are made from. *)
LEMMA MapsStay ==
    ASSUME NEW k, MapsRight(k), UNCHANGED <<signatures, sigSet>>
    PROVE  MapsRight(k)'
BY DEF MapsRight, sigSet, IpKeys, DomainKeys, UrlKeys, HashKeys

(* An entry is converted. *)
LEMMA ConvertKeeps == ASSUME IInv, Convert PROVE IInv'
<1> DEFINE entry == entries[next]
           more == Converted(entry)
<1>1. /\ Types /\ Places /\ FromFeeds /\ MapsRight(0) /\ Counted
      /\ phase = "convert" /\ next \in 1 .. Len(entries) /\ Len(entries) \in Nat
      /\ Len(detections) = 0
  BY DEF IInv, Convert, Types, Places, Indexed
<1>2. /\ signatures' = signatures \o more /\ next' = next + 1
      /\ UNCHANGED <<entries, flows, phase, sigSet, detections, counts, emitted, tally>>
  BY DEF Convert
<1>3. /\ more \in Seq(Signatures) /\ Len(more) \in Nat
      /\ signatures \in Seq(Signatures) /\ Len(signatures) \in Nat
      /\ \A e \in 1 .. Len(entries) : entries[e] \in Entries
  BY <1>1, EntryGives DEF Types
<1>4. /\ signatures' \in Seq(Signatures)
      /\ Len(signatures') = Len(signatures) + Len(more)
      /\ \A i \in 1 .. Len(signatures) : signatures'[i] = signatures[i]
      /\ \A j \in 1 .. Len(more) : signatures'[Len(signatures) + j] = more[j]
  <2> HIDE DEF more
  <2>1. QED
    BY <1>2, <1>3
<1>5. Types'
  BY <1>1, <1>2, <1>4 DEF Types
<1>6. Places'
  BY <1>1, <1>2 DEF Places
<1>7. Heard = next - 1 /\ Heard' = next
  BY <1>1, <1>2 DEF Heard, Types
<1>8. FromFeeds'
  <2> HIDE DEF more
  <2>1. ASSUME NEW e \in 1 .. next, NEW sig \in Signatures, Gave(entries[e], sig)
        PROVE  \E i \in 1 .. Len(signatures') : signatures'[i] = sig
    <3>1. CASE e = next
      <4>1. PICK j \in 1 .. Len(more) : more[j] = sig
        BY <2>1, <3>1 DEF Gave, more
      <4>2. /\ Len(signatures) + j \in 1 .. Len(signatures')
            /\ signatures'[Len(signatures) + j] = sig
        BY <1>3, <1>4, <4>1
      <4>3. QED
        BY <4>2
    <3>2. CASE e # next
      <4>1. PICK i \in 1 .. Len(signatures) : signatures[i] = sig
        BY <1>1, <1>7, <2>1, <3>2 DEF FromFeeds
      <4>2. i \in 1 .. Len(signatures') /\ signatures'[i] = sig
        BY <1>3, <1>4, <4>1
      <4>3. QED
        BY <4>2
    <3>3. QED
      BY <3>1, <3>2
  <2>2. ASSUME NEW i \in 1 .. Len(signatures')
        PROVE  \E e \in 1 .. next : Gave(entries[e], signatures'[i])
    <3>1. CASE i <= Len(signatures)
      <4>1. PICK e \in 1 .. next - 1 : Gave(entries[e], signatures[i])
        BY <1>1, <1>3, <1>7, <3>1 DEF FromFeeds
      <4>2. e \in 1 .. next /\ signatures'[i] = signatures[i]
        BY <1>1, <1>3, <1>4, <3>1
      <4>3. QED
        BY <4>1, <4>2
    <3>2. CASE i > Len(signatures)
      <4>1. /\ i - Len(signatures) \in 1 .. Len(more)
            /\ i = Len(signatures) + (i - Len(signatures))
        BY <1>3, <1>4, <3>2
      <4>2. signatures'[i] = more[i - Len(signatures)]
        BY <1>4, <4>1
      <4>3. Gave(entries[next], signatures'[i])
        BY <4>1, <4>2 DEF Gave, more
      <4>4. QED
        BY <1>1, <4>3
    <3>3. QED
      BY <1>3, <1>4, <3>1, <3>2
  <2>3. entries' = entries /\ Heard' = next
    BY <1>2, <1>7
  <2>4. \A e \in 1 .. Heard' : \A sig \in Signatures :
           Gave(entries'[e], sig)
              => \E i \in 1 .. Len(signatures') : signatures'[i] = sig
    BY <2>1, <2>3
  <2>5. \A i \in 1 .. Len(signatures') :
           \E e \in 1 .. Heard' : Gave(entries'[e], signatures'[i])
    BY <2>2, <2>3
  <2>6. QED
    BY <2>4, <2>5 DEF FromFeeds, Gave
<1>9. MapsRight(Indexed)'
  <2>1. Indexed' = 0
    BY <1>1, <1>2 DEF Indexed
  <2>2. MapsRight(0)'
    BY <1>1, <1>2, NothingIndexed
  <2>3. QED
    BY <2>1, <2>2
<1>10. Judged'
  BY <1>1, <1>2, NothingJudged
<1>11. Counted'
  BY <1>1, <1>2 DEF Counted
<1>12. QED
  BY <1>5, <1>6, <1>8, <1>9, <1>10, <1>11 DEF IInv

(* The set is complete. *)
LEMMA LoadKeeps == ASSUME IInv, Load PROVE IInv'
<1>1. /\ Types /\ Places /\ FromFeeds /\ MapsRight(0) /\ Counted
      /\ phase = "convert" /\ next = Len(entries) + 1 /\ Len(entries) \in Nat
      /\ Len(detections) = 0
  BY DEF IInv, Load, Types, Places, Indexed
<1>2. /\ phase' = "build" /\ next' = 1
      /\ UNCHANGED <<entries, flows, sigSet, detections, counts, emitted, tally>>
      /\ IF signatures = <<>> THEN signatures' \in SignatureLists
                              ELSE UNCHANGED signatures
  BY DEF Load
<1>3. Types'
  <2>1. signatures' \in Seq(Signatures)
    BY <1>1, <1>2, ListAssumption DEF Types
  <2>2. QED
    BY <1>1, <1>2, <2>1 DEF Types
<1>4. Places'
  BY <1>1, <1>2, <1>3 DEF Places, Types
<1>5. Heard = Len(entries) /\ Heard' = Len(entries)
  BY <1>1, <1>2 DEF Heard
<1>6. FromFeeds'
  <2>1. CASE signatures = <<>>
    <3>1. ASSUME NEW e \in 1 .. Len(entries)
          PROVE  Converted(entries[e]) = <<>>
      <4> DEFINE more == Converted(entries[e])
      <4>1. more \in Seq(Signatures)
        BY <1>1, EntryGives DEF Types
      <4>2. \A sig \in Signatures : ~Gave(entries[e], sig)
        BY <1>1, <1>5, <2>1 DEF FromFeeds
      <4>3. \A j \in 1 .. Len(more) : Gave(entries[e], more[j])
        BY DEF Gave
      <4> HIDE DEF more
      <4>4. Len(more) \in Nat /\ \A j \in 1 .. Len(more) : more[j] \in Signatures
        BY <4>1
      <4>5. Len(more) = 0
        <5> SUFFICES ASSUME Len(more) # 0
                     PROVE  FALSE
          OBVIOUS
        <5>1. 1 \in 1 .. Len(more)
          BY <4>4
        <5>2. QED
          BY <4>2, <4>3, <4>4, <5>1
      <4>6. more = <<>>
        BY <4>1, <4>5
      <4>7. QED
        BY <4>6 DEF more
    <3>2. \A e \in 1 .. Len(entries), sig \in Signatures : ~Gave(entries[e], sig)
      BY <3>1 DEF Gave
    <3>3. QED
      BY <1>2, <1>5, <3>1, <3>2 DEF FromFeeds, Gave
  <2>2. CASE signatures # <<>>
    <3>1. UNCHANGED <<entries, signatures>> /\ phase' # "convert"
      BY <1>2, <2>2
    <3>2. \/ \A i \in 1 .. Len(signatures) :
                \E e \in 1 .. Len(entries) : Gave(entries[e], signatures[i])
      BY <1>1, <1>5 DEF FromFeeds
    <3>3. QED
      BY <1>1, <1>5, <3>1, <3>2 DEF FromFeeds, Gave
  <2>3. QED
    BY <2>1, <2>2
<1>7. MapsRight(Indexed)'
  <2>1. Indexed' = 0
    BY <1>2 DEF Indexed
  <2>2. MapsRight(0)'
    BY <1>1, <1>2, NothingIndexed
  <2>3. QED
    BY <2>1, <2>2
<1>8. Judged'
  BY <1>1, <1>2, NothingJudged
<1>9. Counted'
  BY <1>1, <1>2 DEF Counted
<1>10. QED
  BY <1>3, <1>4, <1>6, <1>7, <1>8, <1>9 DEF IInv

(* One signature more in the maps. *)
LEMMA IndexMaps ==
    ASSUME NEW k \in Nat, next = k + 1, signatures[k + 1] \in Signatures,
           MapsRight(k), IndexIp \/ IndexDomain \/ IndexUrl \/ IndexHash,
           UNCHANGED signatures
    PROVE  MapsRight(k + 1)'
<1> DEFINE sig == signatures[k + 1]
           near(s, j) == \E i \in 1 .. j : IpKeys(k + 1)[i] # None
                                           /\ Subnet24[IpKeys(k + 1)[i]] = s
<1>1. /\ Mirrors(ips, IpKeys(k), k) /\ Mirrors(domains, DomainKeys(k), k)
      /\ Mirrors(urls, UrlKeys(k), k) /\ Mirrors(hashes, HashKeys(k), k)
      /\ \A s : s \in subnets <=> s # None /\ near(s, k)
  BY KeysGrow DEF MapsRight
<1>2. /\ IpKeys(k + 1)' = IpKeys(k + 1) /\ DomainKeys(k + 1)' = DomainKeys(k + 1)
      /\ UrlKeys(k + 1)' = UrlKeys(k + 1) /\ HashKeys(k + 1)' = HashKeys(k + 1)
  BY DEF IpKeys, DomainKeys, UrlKeys, HashKeys
<1>3. SUFFICES /\ Mirrors(ips', IpKeys(k + 1), k + 1)
               /\ Mirrors(domains', DomainKeys(k + 1), k + 1)
               /\ Mirrors(urls', UrlKeys(k + 1), k + 1)
               /\ Mirrors(hashes', HashKeys(k + 1), k + 1)
               /\ \A s : s \in subnets' <=> s # None /\ near(s, k + 1)
  BY <1>2 DEF MapsRight
<1>4. \A s : near(s, k + 1) <=>
               near(s, k) \/ (IpKey(sig) # None /\ Subnet24[IpKey(sig)] = s)
  <2>1. \A i \in 1 .. k + 1 : i \in 1 .. k \/ i = k + 1
    OBVIOUS
  <2>2. IpKeys(k + 1)[k + 1] = IpKey(sig)
    BY KeysGrow
  <2>3. k + 1 \in 1 .. k + 1 /\ \A i \in 1 .. k : i \in 1 .. k + 1
    OBVIOUS
  <2>4. QED
    BY <2>1, <2>2, <2>3
<1> HIDE DEF near
<1>5. /\ IpKey(sig) = None => Mirrors(ips, IpKeys(k + 1), k + 1)
      /\ DomainKey(sig) = None => Mirrors(domains, DomainKeys(k + 1), k + 1)
      /\ UrlKey(sig) = None => Mirrors(urls, UrlKeys(k + 1), k + 1)
      /\ HashKey(sig) = None => Mirrors(hashes, HashKeys(k + 1), k + 1)
  BY <1>1, KeysGrow, MirrorStays
<1>6. ASSUME NEW x, x # None
      PROVE  /\ IpKey(sig) = x =>
                   Mirrors(Inserted(ips, x, k + 1), IpKeys(k + 1), k + 1)
             /\ DomainKey(sig) = x =>
                   Mirrors(Inserted(domains, x, k + 1), DomainKeys(k + 1), k + 1)
             /\ UrlKey(sig) = x =>
                   Mirrors(Inserted(urls, x, k + 1), UrlKeys(k + 1), k + 1)
             /\ HashKey(sig) = x =>
                   Mirrors(Inserted(hashes, x, k + 1), HashKeys(k + 1), k + 1)
  <2>1. \A i \in 1 .. k :
           /\ IpKeys(k + 1)[i] = IpKeys(k)[i]
           /\ DomainKeys(k + 1)[i] = DomainKeys(k)[i]
           /\ UrlKeys(k + 1)[i] = UrlKeys(k)[i]
           /\ HashKeys(k + 1)[i] = HashKeys(k)[i]
    BY KeysGrow
  <2>2. /\ IpKeys(k + 1)[k + 1] = IpKey(sig)
        /\ DomainKeys(k + 1)[k + 1] = DomainKey(sig)
        /\ UrlKeys(k + 1)[k + 1] = UrlKey(sig)
        /\ HashKeys(k + 1)[k + 1] = HashKey(sig)
    BY KeysGrow
  <2> HIDE DEF sig
  <2>3. IpKey(sig) = x =>
           Mirrors(Inserted(ips, x, k + 1), IpKeys(k + 1), k + 1)
    BY <1>1, <1>6, <2>1, <2>2, MirrorGrows
  <2>4. DomainKey(sig) = x =>
           Mirrors(Inserted(domains, x, k + 1), DomainKeys(k + 1), k + 1)
    BY <1>1, <1>6, <2>1, <2>2, MirrorGrows
  <2>5. UrlKey(sig) = x =>
           Mirrors(Inserted(urls, x, k + 1), UrlKeys(k + 1), k + 1)
    BY <1>1, <1>6, <2>1, <2>2, MirrorGrows
  <2>6. HashKey(sig) = x =>
           Mirrors(Inserted(hashes, x, k + 1), HashKeys(k + 1), k + 1)
    BY <1>1, <1>6, <2>1, <2>2, MirrorGrows
  <2>7. QED
    BY <2>3, <2>4, <2>5, <2>6
<1>7. /\ DomainKey(sig) # None <=> sig.ioc_type = "domain"
      /\ UrlKey(sig) # None <=> sig.ioc_type = "url"
      /\ HashKey(sig) # None <=> sig.ioc_type = "sha256"
  BY KeyTypes
<1>8. sig.ioc_type # "ip" => IpKey(sig) = None
  BY DEF IpKey
<1>9. CASE IndexIp
  <2>1. sig.ioc_type = "ip" /\ IpKey(sig) = ParseIp[sig.value]
        /\ UNCHANGED <<domains, urls, hashes>>
    BY <1>9 DEF IndexIp, IpKey
  <2>2. CASE IpKey(sig) = None
    <3>1. UNCHANGED <<ips, subnets>>
      BY <1>9, <2>1, <2>2 DEF IndexIp
    <3>2. QED
      BY <1>1, <1>4, <1>5, <1>7, <2>1, <2>2, <3>1
  <2>3. CASE IpKey(sig) # None
    <3>1. /\ ips' = Inserted(ips, IpKey(sig), k + 1)
          /\ subnets' = subnets \cup ({Subnet24[IpKey(sig)]} \ {None})
      BY <1>9, <2>1, <2>3 DEF IndexIp
    <3>2. \A s : s \in subnets' <=> s # None /\ near(s, k + 1)
      BY <1>1, <1>4, <2>3, <3>1
    <3>3. QED
      BY <1>5, <1>6, <1>7, <2>1, <2>3, <3>1, <3>2
  <2>4. QED
    BY <2>2, <2>3
<1>10. CASE IndexDomain
  <2>1. /\ sig.ioc_type = "domain" /\ DomainKey(sig) = Lower[sig.value]
        /\ domains' = Inserted(domains, DomainKey(sig), k + 1)
        /\ UNCHANGED <<ips, urls, hashes, subnets>>
    BY <1>10 DEF IndexDomain, DomainKey
  <2>2. QED
    BY <1>1, <1>4, <1>5, <1>6, <1>7, <1>8, <2>1
<1>11. CASE IndexUrl
  <2>1. /\ sig.ioc_type = "url" /\ UrlKey(sig) = NormalizeUrl[sig.value]
        /\ urls' = Inserted(urls, UrlKey(sig), k + 1)
        /\ UNCHANGED <<ips, domains, hashes, subnets>>
    BY <1>11 DEF IndexUrl, UrlKey
  <2>2. QED
    BY <1>1, <1>4, <1>5, <1>6, <1>7, <1>8, <2>1
<1>12. CASE IndexHash
  <2>1. /\ sig.ioc_type = "sha256" /\ HashKey(sig) = Lower[sig.value]
        /\ hashes' = Inserted(hashes, HashKey(sig), k + 1)
        /\ UNCHANGED <<ips, domains, urls, subnets>>
    BY <1>12 DEF IndexHash, HashKey
  <2>2. QED
    BY <1>1, <1>4, <1>5, <1>6, <1>7, <1>8, <2>1
<1>13. QED
  BY <1>9, <1>10, <1>11, <1>12

(* Where the feeds' part is over, it stays as it is. *)
LEMMA FromFeedsStays ==
    ASSUME FromFeeds, phase # "convert", phase' # "convert",
           UNCHANGED <<entries, signatures>>
    PROVE  FromFeeds'
<1>1. Heard = Len(entries) /\ Heard' = Len(entries)
  BY DEF Heard
<1>2. CASE \A i \in 1 .. Len(signatures) :
              \E e \in 1 .. Heard : Gave(entries[e], signatures[i])
  BY <1>1, <1>2 DEF FromFeeds, Gave
<1>3. CASE \A e \in 1 .. Len(entries) : Converted(entries[e]) = <<>>
  BY <1>1, <1>3 DEF FromFeeds, Gave
<1>4. QED
  BY <1>2, <1>3 DEF FromFeeds

(* A signature is indexed. *)
LEMMA IndexKeeps == ASSUME IInv, Index PROVE IInv'
<1>1. /\ Types /\ Places /\ FromFeeds /\ MapsRight(next - 1) /\ Counted
      /\ phase = "build" /\ next \in 1 .. Len(signatures) /\ Len(signatures) \in Nat
      /\ Len(detections) = 0
  BY DEF IInv, Index, Types, Places, Indexed
<1>2. /\ next' = next + 1
      /\ UNCHANGED <<entries, signatures, flows, phase, detections, counts, emitted, tally>>
  BY DEF Index
<1>3. Types'
  BY <1>1, <1>2 DEF Types
<1>4. Places'
  BY <1>1, <1>2 DEF Places
<1>5. FromFeeds'
  BY <1>1, <1>2, FromFeedsStays
<1>6. MapsRight(Indexed)'
  <2>1. PICK k \in Nat : next = k + 1
    BY <1>1
  <2>2. MapsRight(k)
    BY <1>1, <2>1
  <2>3. signatures[k + 1] \in Signatures
    BY <1>1, <2>1 DEF Types
  <2>4. IndexIp \/ IndexDomain \/ IndexUrl \/ IndexHash
    BY DEF Index
  <2>5. MapsRight(k + 1)'
    BY <1>2, <2>1, <2>2, <2>3, <2>4, IndexMaps
  <2>6. Indexed' = k + 1
    BY <1>1, <1>2, <2>1 DEF Indexed
  <2>7. QED
    BY <2>5, <2>6
<1>7. Judged'
  BY <1>1, <1>2, NothingJudged
<1>8. Counted'
  BY <1>1, <1>2 DEF Counted
<1>9. QED
  BY <1>3, <1>4, <1>5, <1>6, <1>7, <1>8 DEF IInv

(* The maps are complete. *)
LEMMA BuiltKeeps == ASSUME IInv, Built PROVE IInv'
<1>1. /\ Types /\ Places /\ FromFeeds /\ MapsRight(Len(signatures)) /\ Counted
      /\ phase = "build"
      /\ Len(signatures) \in Nat /\ Len(flows) \in Nat /\ Len(detections) = 0
  <2>1. Types /\ Places /\ FromFeeds /\ MapsRight(Indexed) /\ Counted
    BY DEF IInv
  <2>2. /\ phase = "build" /\ next <= Len(signatures) + 1 /\ next > Len(signatures)
        /\ Len(signatures) \in Nat /\ Len(flows) \in Nat /\ Len(detections) = 0
        /\ next \in Nat
    BY <2>1 DEF Built, Types, Places
  <2>3. Indexed = Len(signatures)
    BY <2>2 DEF Indexed
  <2>4. QED
    BY <2>1, <2>2, <2>3
<1>2. /\ phase' = "match" /\ next' = 1 /\ emitted' = emitted + 1
      /\ UNCHANGED <<entries, signatures, flows, sigSet, detections, counts, tally>>
  BY DEF Built
<1>3. Types'
  BY <1>1, <1>2 DEF Types
<1>4. Places'
  BY <1>1, <1>2 DEF Places
<1>5. FromFeeds'
  BY <1>1, <1>2, FromFeedsStays
<1>6. MapsRight(Indexed)'
  <2>1. PICK k \in Nat : k = Len(signatures)
    BY <1>1
  <2>2. MapsRight(k)
    BY <1>1, <2>1
  <2>3. MapsRight(k)' /\ Indexed' = k
    BY <1>2, <2>1, <2>2, MapsStay DEF Indexed
  <2>4. QED
    BY <2>3
<1>7. Judged'
  BY <1>1, <1>2, NothingJudged
<1>8. Counted'
  <2>1. counts["Suspicious"] \in Nat /\ counts["Malicious"] \in Nat
    BY <1>1 DEF Types, Verdicts
  <2>2. /\ emitted = counts["Suspicious"] + 2 * counts["Malicious"]
        /\ tally = Zero
    BY <1>1, <2>1 DEF Counted
  <2>3. emitted' = 1 + counts["Suspicious"] + 2 * counts["Malicious"]
    BY <1>2, <2>1, <2>2
  <2>4. QED
    BY <1>1, <1>2, <2>2, <2>3 DEF Counted
<1>9. QED
  BY <1>3, <1>4, <1>5, <1>6, <1>7, <1>8 DEF IInv

(* Three counts, of which one grows, and a sum that weighs two of them.      *)
LEMMA OneMore ==
    ASSUME NEW b \in Nat, NEW s \in Nat, NEW m \in Nat,
           NEW x \in Nat, NEW y \in Nat, NEW z \in Nat, x + y + z = 1
    PROVE  /\ (b + x) + (s + y) + (m + z) = (b + s + m) + 1
           /\ 1 + (s + y) + 2 * (m + z) = (1 + s + 2 * m) + (y + 2 * z)
OBVIOUS

(* A flow is judged. *)
LEMMA MatchKeeps == ASSUME IInv, Match PROVE IInv'
<1> DEFINE n == Len(detections)
           d == Classify(flows[n + 1])
<1>1. /\ Types /\ Places /\ FromFeeds /\ MapsRight(Len(signatures)) /\ Judged /\ Counted
      /\ phase = "match" /\ next = n + 1 /\ n \in Nat /\ n + 1 <= Len(flows)
      /\ Len(flows) \in Nat /\ Len(signatures) \in Nat
      /\ flows[n + 1] \in Flows
  BY DEF IInv, Match, Types, Places, Indexed
<1>2. /\ d \in Detections /\ d.verdict \in Verdicts
      /\ VerdictRight(d, flows[n + 1]) /\ NamedRight(d, flows[n + 1])
  <2>1. /\ d \in Detections /\ VerdictRight(d, flows[n + 1])
        /\ NamedRight(d, flows[n + 1])
    BY <1>1, ClassifyRight
  <2>2. QED
    BY <2>1 DEF Detections
<1>3. /\ detections' = Append(detections, d)
      /\ counts' = [counts EXCEPT ![d.verdict] = @ + 1]
      /\ emitted' = emitted + EventsFor[d.verdict]
      /\ next' = next + 1
      /\ UNCHANGED <<entries, signatures, flows, phase, sigSet, tally>>
  BY <1>1 DEF Match
<1> HIDE DEF d
<1>4. /\ detections' \in Seq(Detections) /\ Len(detections') = n + 1
      /\ detections'[n + 1] = d
      /\ \A k \in 1 .. n : detections'[k] = detections[k]
      /\ detections \in Seq(Detections)
  BY <1>1, <1>2, <1>3 DEF Types
<1>5. /\ EventsFor["Benign"] = 0 /\ EventsFor["Suspicious"] = 1
      /\ EventsFor["Malicious"] = 2
      /\ Verdicts = {"Benign", "Suspicious", "Malicious"}
  BY DEF EventsFor, Verdicts
<1>6. /\ \A v \in Verdicts : counts[v] \in Nat
      /\ \A v \in Verdicts : counts'[v] = counts[v] + (IF d.verdict = v THEN 1 ELSE 0)
      /\ counts' \in [Verdicts -> Nat]
  <2>1. counts \in [Verdicts -> Nat] /\ d.verdict \in Verdicts
    BY <1>1, <1>2 DEF Types
  <2>2. counts' = [counts EXCEPT ![d.verdict] = @ + 1]
    BY <1>3
  <2>3. QED
    BY <2>1, <2>2
<1> DEFINE v0 == d.verdict
           extra(v) == IF v0 = v THEN 1 ELSE 0
<1>6a. /\ counts["Benign"] \in Nat /\ counts["Suspicious"] \in Nat
       /\ counts["Malicious"] \in Nat
       /\ counts'["Benign"] = counts["Benign"] + extra("Benign")
       /\ counts'["Suspicious"] = counts["Suspicious"] + extra("Suspicious")
       /\ counts'["Malicious"] = counts["Malicious"] + extra("Malicious")
  BY <1>5, <1>6
<1>6b. /\ extra("Benign") \in Nat /\ extra("Suspicious") \in Nat
       /\ extra("Malicious") \in Nat
       /\ extra("Benign") + extra("Suspicious") + extra("Malicious") = 1
       /\ EventsFor[v0] = extra("Suspicious") + 2 * extra("Malicious")
  <2>1. v0 = "Benign" \/ v0 = "Suspicious" \/ v0 = "Malicious"
    BY <1>2, <1>5
  <2> HIDE DEF v0
  <2>2. QED
    BY <1>5, <2>1
<1> HIDE DEF extra
<1>7. Types'
  <2>1. emitted' \in Nat
    <3>1. emitted \in Nat /\ EventsFor[d.verdict] \in Nat
      BY <1>1, <1>2, <1>5 DEF Types
    <3>2. QED
      BY <1>3, <3>1
  <2>2. QED
    BY <1>1, <1>3, <1>4, <1>6, <2>1 DEF Types
<1>8. Places'
  BY <1>1, <1>3, <1>4 DEF Places
<1>9. FromFeeds'
  BY <1>1, <1>3, FromFeedsStays
<1>10. MapsRight(Indexed)'
  <2>1. PICK k \in Nat : k = Len(signatures)
    BY <1>1
  <2>2. MapsRight(k)
    BY <1>1, <2>1
  <2>3. MapsRight(k)' /\ Indexed' = k
    BY <1>1, <1>3, <2>1, <2>2, MapsStay DEF Indexed
  <2>4. QED
    BY <2>3
<1>11. Judged'
  <2>1. ASSUME NEW k \in 1 .. n + 1
        PROVE  /\ VerdictRight(detections'[k], flows[k])
               /\ NamedRight(detections'[k], flows[k])
    BY <1>1, <1>2, <1>4 DEF Judged
  <2>2. signatures' = signatures /\ flows' = flows /\ Len(detections') = n + 1
    BY <1>3, <1>4
  <2>3. QED
    BY <2>1, <2>2 DEF Judged, VerdictRight, NamedRight, Indicated, Indicates, Odd,
                      NearIndicator
<1>12. Counted'
  <2>1. ASSUME NEW v \in Verdicts
        PROVE  counts'[v] = Cardinality(Having(detections', v, n + 1))
    <3>1. Having(detections', v, n) = Having(detections, v, n)
      BY <1>1, <1>2, <1>3, <1>4, HavingAppended
    <3>2. Cardinality(Having(detections', v, n + 1))
             = Cardinality(Having(detections', v, n))
               + (IF detections'[n + 1].verdict = v THEN 1 ELSE 0)
      <4>1. PICK found : found = detections'
        OBVIOUS
      <4>2. Cardinality(Having(found, v, n + 1))
               = Cardinality(Having(found, v, n))
                 + (IF found[n + 1].verdict = v THEN 1 ELSE 0)
        <5>1. n \in Nat
          BY <1>1
        <5> HIDE DEF n
        <5>2. QED
          BY <5>1, HavingGrows
      <4>3. QED
        BY <4>1, <4>2
    <3>3. counts[v] = Cardinality(Having(detections, v, n))
      BY <1>1 DEF Counted
    <3>4. QED
      BY <1>4, <1>6, <3>1, <3>2, <3>3
  <2>2. PICK b \in Nat, s \in Nat, m \in Nat :
           b = counts["Benign"] /\ s = counts["Suspicious"] /\ m = counts["Malicious"]
    BY <1>6a
  <2>3. PICK x \in Nat, y \in Nat, z \in Nat :
           x = extra("Benign") /\ y = extra("Suspicious") /\ z = extra("Malicious")
    BY <1>6b
  <2>4. /\ counts'["Benign"] = b + x /\ counts'["Suspicious"] = s + y
        /\ counts'["Malicious"] = m + z
    BY <1>6a, <2>2, <2>3
  <2>5. x + y + z = 1 /\ EventsFor[v0] = y + 2 * z
    BY <1>6b, <2>3
  <2>6. b + s + m = n /\ emitted = 1 + s + 2 * m /\ tally = Zero
    BY <1>1, <2>2 DEF Counted
  <2>7. (b + x) + (s + y) + (m + z) = n + 1
    BY <2>5, <2>6, OneMore
  <2>8. emitted' = 1 + (s + y) + 2 * (m + z)
    BY <1>3, <2>5, <2>6, OneMore
  <2>9. /\ counts'["Benign"] + counts'["Suspicious"] + counts'["Malicious"] = n + 1
        /\ emitted' = 1 + counts'["Suspicious"] + 2 * counts'["Malicious"]
    BY <2>4, <2>7, <2>8
  <2>10. QED
    BY <1>1, <1>3, <1>4, <2>1, <2>6, <2>9 DEF Counted
<1>13. QED
  BY <1>7, <1>8, <1>9, <1>10, <1>11, <1>12 DEF IInv

(* The steps after the loop leave the maps and the detections alone. *)
LEMMA AfterMatch ==
    ASSUME IInv, phase \in {"match", "tally", "done"},
           phase' \in {"match", "tally", "done"},
           UNCHANGED <<entries, signatures, flows, sigSet, detections>>
    PROVE  FromFeeds' /\ MapsRight(Indexed)' /\ Judged'
<1>1. Types /\ FromFeeds /\ MapsRight(Indexed) /\ Judged
  BY DEF IInv
<1>2. PICK k \in Nat : k = Len(signatures)
  <2>1. signatures \in Seq(Signatures)
    BY <1>1 DEF Types
  <2>2. Len(signatures) \in Nat
    BY <2>1
  <2>3. QED
    BY <2>2
<1>3. Indexed = k /\ Indexed' = k
  BY <1>2 DEF Indexed
<1>4. MapsRight(k)
  BY <1>1, <1>3
<1>5. MapsRight(k)'
  BY <1>4, MapsStay
<1>6. QED
  BY <1>1, <1>3, <1>5, FromFeedsStays, JudgedStays

(* The loop over the flows is over. *)
LEMMA MatchedKeeps == ASSUME IInv, Matched PROVE IInv'
<1>1. /\ Types /\ Places /\ Counted
      /\ phase = "match" /\ Len(detections) = Len(flows) /\ Len(flows) \in Nat
  BY DEF IInv, Matched, Types, Places
<1>2. /\ emitted' = emitted + 1 /\ phase' = "tally" /\ next' = 1
      /\ UNCHANGED <<entries, signatures, flows, sigSet, detections, counts, tally>>
  BY DEF Matched
<1>3. Types'
  BY <1>1, <1>2 DEF Types
<1>4. Places'
  BY <1>1, <1>2 DEF Places
<1>5. FromFeeds' /\ MapsRight(Indexed)' /\ Judged'
  BY <1>1, <1>2, AfterMatch
<1>6. Counted'
  <2>1. counts["Suspicious"] \in Nat /\ counts["Malicious"] \in Nat
    BY <1>1 DEF Types, Verdicts
  <2>2. /\ emitted = 1 + counts["Suspicious"] + 2 * counts["Malicious"]
        /\ tally = Zero
    BY <1>1, <2>1 DEF Counted
  <2>3. emitted' = 2 + counts["Suspicious"] + 2 * counts["Malicious"]
    BY <1>2, <2>1, <2>2
  <2>4. \A v \in Verdicts : tally'[v] = Cardinality(Having(detections', v, next' - 1))
    BY <1>2, <2>2, HavingNone DEF Zero
  <2>5. QED
    BY <1>1, <1>2, <2>3, <2>4 DEF Counted
<1>7. QED
  BY <1>3, <1>4, <1>5, <1>6 DEF IInv

(* The report counts a detection. *)
LEMMA TallyKeeps == ASSUME IInv, Tally PROVE IInv'
<1> DEFINE verdict == detections[next].verdict
<1>1. /\ Types /\ Places /\ Counted
      /\ phase = "tally" /\ next \in 1 .. Len(detections)
      /\ Len(detections) = Len(flows) /\ Len(flows) \in Nat
  BY DEF IInv, Tally, Types, Places
<1>2. /\ tally' = [tally EXCEPT ![verdict] = @ + 1] /\ next' = next + 1
      /\ UNCHANGED <<entries, signatures, flows, phase, sigSet, detections, counts, emitted>>
  BY DEF Tally
<1>3. verdict \in Verdicts
  <2>1. detections[next] \in Detections
    BY <1>1 DEF Types
  <2>2. QED
    BY <2>1 DEF Detections
<1>4. Types'
  BY <1>1, <1>2, <1>3 DEF Types
<1>5. Places'
  BY <1>1, <1>2 DEF Places
<1>6. FromFeeds' /\ MapsRight(Indexed)' /\ Judged'
  BY <1>1, <1>2, AfterMatch
<1>7. Counted'
  <2>1. ASSUME NEW v \in Verdicts
        PROVE  tally'[v] = Cardinality(Having(detections, v, next))
    <3>1. tally[v] = Cardinality(Having(detections, v, next - 1))
      BY <1>1 DEF Counted
    <3>2. Cardinality(Having(detections, v, (next - 1) + 1))
             = Cardinality(Having(detections, v, next - 1))
               + (IF detections[(next - 1) + 1].verdict = v THEN 1 ELSE 0)
      <4>1. PICK k \in Nat : k = next - 1
        BY <1>1
      <4>2. Cardinality(Having(detections, v, k + 1))
               = Cardinality(Having(detections, v, k))
                 + (IF detections[k + 1].verdict = v THEN 1 ELSE 0)
        BY HavingGrows
      <4>3. QED
        BY <4>1, <4>2
    <3>3. (next - 1) + 1 = next
      BY <1>1
    <3>4. tally'[v] = tally[v] + (IF verdict = v THEN 1 ELSE 0)
      BY <1>1, <1>2, <1>3 DEF Types
    <3>5. QED
      BY <3>1, <3>2, <3>3, <3>4
  <2>2. next' - 1 = next
    BY <1>1, <1>2
  <2>3. QED
    BY <1>1, <1>2, <2>1, <2>2 DEF Counted
<1>8. QED
  BY <1>4, <1>5, <1>6, <1>7 DEF IInv

(* The report has counted. *)
LEMMA TalliedKeeps == ASSUME IInv, Tallied PROVE IInv'
<1>1. /\ Types /\ Places /\ Counted
      /\ phase = "tally" /\ next = Len(detections) + 1
      /\ Len(detections) = Len(flows) /\ Len(flows) \in Nat
  BY DEF IInv, Tallied, Types, Places
<1>2. /\ phase' = "done"
      /\ UNCHANGED <<entries, signatures, flows, next, sigSet, detections, counts,
                     emitted, tally>>
  BY DEF Tallied
<1>3. Types'
  BY <1>1, <1>2 DEF Types
<1>4. Places'
  BY <1>1, <1>2 DEF Places
<1>5. FromFeeds' /\ MapsRight(Indexed)' /\ Judged'
  BY <1>1, <1>2, AfterMatch
<1>6. Counted'
  BY <1>1, <1>2 DEF Counted
<1>7. QED
  BY <1>3, <1>4, <1>5, <1>6 DEF IInv

(* Every step keeps the invariant. *)
LEMMA StepPreserves == IInv /\ [Next]_vars => IInv'
<1> SUFFICES ASSUME IInv, [Next]_vars
             PROVE  IInv'
  OBVIOUS
<1>1. CASE UNCHANGED vars
  <2>1. Types /\ Places /\ FromFeeds /\ MapsRight(Indexed) /\ Judged /\ Counted
    BY DEF IInv
  <2>2. Types' /\ Places' /\ Counted'
    BY <1>1, <2>1 DEF Types, Places, Counted, vars
  <2>3. FromFeeds'
    BY <1>1, <2>1 DEF FromFeeds, Heard, Gave, vars
  <2>4. MapsRight(Indexed)'
    BY <1>1, <2>1 DEF MapsRight, Indexed, IpKeys, DomainKeys, UrlKeys, HashKeys, vars
  <2>5. Judged'
    BY <1>1, <2>1, JudgedStays DEF vars
  <2>6. QED
    BY <2>2, <2>3, <2>4, <2>5 DEF IInv
<1>2. CASE Next
  BY <1>2, ConvertKeeps, LoadKeeps, IndexKeeps, BuiltKeeps, MatchKeeps, MatchedKeeps,
     TallyKeeps, TalliedKeeps DEF Next
<1>3. QED
  BY <1>1, <1>2

(***************************************************************************)
(* Every reachable state satisfies the invariant.                          *)
(***************************************************************************)
THEOREM InvariantHolds == Spec => []IInv
<1>1. QED
  BY InitEstablishes, StepPreserves, PTL DEF Spec

-----------------------------------------------------------------------------
(***************************************************************************)
(* The properties                                                          *)
(***************************************************************************)

(* What a map refers to, and with what keys. *)
LEMMA MirrorTypes ==
    ASSUME Types, NEW k \in Nat, k <= Len(signatures), MapsRight(k)
    PROVE  /\ \A map \in {ips, domains, urls, hashes} :
                 \A key \in DOMAIN map : map[key] \in 1 .. Len(signatures)
           /\ DOMAIN ips \subseteq Ips
           /\ DOMAIN domains \cup DOMAIN hashes \subseteq Names \cup Hashes
           /\ DOMAIN urls \subseteq Urls
           /\ subnets \subseteq Subnets
<1>1. Len(signatures) \in Nat /\ \A i \in 1 .. k : signatures[i] \in Signatures
  BY DEF Types
<1>2. \A i \in 1 .. k :
         /\ IpKeys(k)[i] \in Optional(Ips) /\ DomainKeys(k)[i] \in Optional(Names)
         /\ UrlKeys(k)[i] \in Optional(Urls) /\ HashKeys(k)[i] \in Optional(Hashes)
  BY <1>1, KeyTypes DEF IpKeys, DomainKeys, UrlKeys, HashKeys
<1>3. ASSUME NEW map, NEW key, NEW S, Mirrors(map, key, k),
             \A i \in 1 .. k : key[i] \in Optional(S)
      PROVE  /\ \A x \in DOMAIN map : map[x] \in 1 .. Len(signatures)
             /\ DOMAIN map \subseteq S
  BY <1>1, <1>3 DEF Mirrors, Optional
<1>4. /\ \A x \in DOMAIN ips : ips[x] \in 1 .. Len(signatures)
      /\ DOMAIN ips \subseteq Ips
  BY <1>2, <1>3 DEF MapsRight
<1>5. /\ \A x \in DOMAIN domains : domains[x] \in 1 .. Len(signatures)
      /\ DOMAIN domains \subseteq Names
  BY <1>2, <1>3 DEF MapsRight
<1>6. /\ \A x \in DOMAIN urls : urls[x] \in 1 .. Len(signatures)
      /\ DOMAIN urls \subseteq Urls
  BY <1>2, <1>3 DEF MapsRight
<1>7. /\ \A x \in DOMAIN hashes : hashes[x] \in 1 .. Len(signatures)
      /\ DOMAIN hashes \subseteq Hashes
  BY <1>2, <1>3 DEF MapsRight
<1>8. subnets \subseteq Subnets
  <2>1. ASSUME NEW s \in subnets
        PROVE  s \in Subnets
    <3>1. PICK i \in 1 .. k :
             s # None /\ IpKeys(k)[i] # None /\ Subnet24[IpKeys(k)[i]] = s
      BY DEF MapsRight
    <3>2. IpKeys(k)[i] \in Ips
      BY <1>2, <3>1 DEF Optional
    <3>3. Subnet24[IpKeys(k)[i]] \in Optional(Subnets)
      BY <3>2
    <3>4. QED
      BY <3>1, <3>3 DEF Optional
  <2>2. QED
    BY <2>1
<1>9. QED
  BY <1>4, <1>5, <1>6, <1>7, <1>8

(***************************************************************************)
(* Types: in every state a map of SignatureSet refers to signatures that   *)
(* were indexed, by keys of its own kind.                                  *)
(***************************************************************************)
THEOREM TypeCorrect == Spec => []TypeOK
<1>1. IInv => TypeOK
  <2> SUFFICES ASSUME IInv
               PROVE  TypeOK
    OBVIOUS
  <2>1. Types /\ Places /\ MapsRight(Indexed)
    BY DEF IInv
  <2>2. /\ Len(signatures) \in Nat /\ Len(detections) \in Nat /\ Len(flows) \in Nat
        /\ next \in Nat \ {0}
    BY <2>1 DEF Types
  <2>3. Indexed \in Nat /\ Indexed <= Len(signatures)
    BY <2>1, <2>2 DEF Indexed, Places
  <2>4. Len(detections) <= Len(flows)
    BY <2>1, <2>2 DEF Places, Types
  <2>5. PICK k \in Nat : k = Indexed
    BY <2>3
  <2>6. /\ \A map \in {ips, domains, urls, hashes} :
              \A key \in DOMAIN map : map[key] \in 1 .. Len(signatures)
        /\ DOMAIN ips \subseteq Ips
        /\ DOMAIN domains \cup DOMAIN hashes \subseteq Names \cup Hashes
        /\ DOMAIN urls \subseteq Urls
        /\ subnets \subseteq Subnets
    BY <2>1, <2>3, <2>5, MirrorTypes
  <2>7. QED
    BY <2>1, <2>4, <2>6 DEF TypeOK, Types
<1>2. QED
  BY <1>1, InvariantHolds, PTL

(***************************************************************************)
(* Every flow gets the verdict that the list of signatures calls for.      *)
(***************************************************************************)
THEOREM VerdictsCorrect == Spec => []VerdictsAreRight
<1>1. IInv => VerdictsAreRight
  <2> SUFFICES ASSUME IInv, phase \in {"tally", "done"}
               PROVE  /\ Len(detections) = Len(flows)
                      /\ \A k \in DOMAIN flows : VerdictRight(detections[k], flows[k])
    BY DEF VerdictsAreRight, VerdictRight, Odd
  <2>1. Len(detections) = Len(flows) /\ DOMAIN flows = 1 .. Len(flows)
    BY DEF IInv, Places, Types
  <2>2. QED
    BY <2>1 DEF IInv, Judged
<1>2. QED
  BY <1>1, InvariantHolds, PTL

(***************************************************************************)
(* A malicious flow names the signature that has priority.                 *)
(***************************************************************************)
THEOREM BestNamed == Spec => []BestSignatureNamed
<1>1. IInv => BestSignatureNamed
  <2> SUFFICES ASSUME IInv, phase \in {"tally", "done"}
               PROVE  \A k \in DOMAIN flows : NamedRight(detections[k], flows[k])
    BY DEF BestSignatureNamed, NamedRight
  <2>1. Len(detections) = Len(flows) /\ DOMAIN flows = 1 .. Len(flows)
    BY DEF IInv, Places, Types
  <2>2. QED
    BY <2>1 DEF IInv, Judged
<1>2. QED
  BY <1>1, InvariantHolds, PTL

(***************************************************************************)
(* The summary, the report and the log tell the same story.                *)
(***************************************************************************)
THEOREM CountsAgree == Spec => []SummaryReportAndLogAgree
<1>1. IInv => SummaryReportAndLogAgree
  <2> SUFFICES ASSUME IInv, phase = "done"
               PROVE  SummaryReportAndLogAgree
    BY DEF SummaryReportAndLogAgree
  <2>1. /\ Types /\ Counted /\ next - 1 = Len(detections)
        /\ Len(detections) = Len(flows)
    BY DEF IInv, Places, Types
  <2>2. \A v \in Verdicts : tally[v] = counts[v]
    BY <2>1 DEF Counted
  <2>3. tally = counts
    BY <2>1, <2>2 DEF Types
  <2>4. QED
    BY <2>1, <2>3 DEF Counted, SummaryReportAndLogAgree
<1>2. QED
  BY <1>1, InvariantHolds, PTL

-----------------------------------------------------------------------------
(***************************************************************************)
(* From the entries to the verdicts                                        *)
(***************************************************************************)

\* A signature indicates a flow, by the criterion of its kind.
Fires(sig, flow) ==
    \/ /\ sig.ioc_type = "url" /\ flow.url # None
       /\ NormalizeUrl[sig.value] = NormalizeUrl[flow.url]
    \/ /\ sig.ioc_type = "domain" /\ flow.hostname # None
       /\ Lower[sig.value] = Lower[flow.hostname]
    \/ sig.ioc_type = "ip" /\ ParseIp[sig.value] \in {flow.dst_ip, flow.src_ip}
    \/ sig.ioc_type = "sha256" /\ Lower[sig.value] = flow.payload_sha256

(* By which criterion a signature indicates a flow follows from its kind. *)
LEMMA IndicatedIsFires ==
    ASSUME Types, NEW flow
    PROVE  Indicated(flow) <=> \E i \in 1 .. Len(signatures) : Fires(signatures[i], flow)
<1>1. DOMAIN signatures = 1 .. Len(signatures)
  BY DEF Types
<1>2. ASSUME NEW i
      PROVE  (\E c \in 1 .. 5 : Indicates(i, flow, c)) <=> Fires(signatures[i], flow)
  <2>1. /\ 1 \in 1 .. 5 /\ 2 \in 1 .. 5 /\ 3 \in 1 .. 5 /\ 4 \in 1 .. 5 /\ 5 \in 1 .. 5
    OBVIOUS
  <2>2. ASSUME NEW c \in 1 .. 5, Indicates(i, flow, c)
        PROVE  Fires(signatures[i], flow)
    BY <2>2 DEF Indicates, Fires
  <2>3. ASSUME Fires(signatures[i], flow)
        PROVE  \/ Indicates(i, flow, 1) \/ Indicates(i, flow, 2)
               \/ Indicates(i, flow, 3) \/ Indicates(i, flow, 4)
               \/ Indicates(i, flow, 5)
    BY <2>3 DEF Indicates, Fires
  <2>4. QED
    BY <2>1, <2>2, <2>3
<1>3. QED
  BY <1>1, <1>2 DEF Indicated

\* Some signature that the entry gave indicates the flow.
GivesOneThatFires(entry, flow) ==
    \E sig \in Signatures : Gave(entry, sig) /\ Fires(sig, flow)

(* A sequence of one signature gives that one. *)
LEMMA GaveOne ==
    ASSUME NEW entry, NEW sig \in Signatures, NEW flow, Converted(entry) = <<sig>>
    PROVE  GivesOneThatFires(entry, flow) <=> Fires(sig, flow)
<1>1. \A x : Gave(entry, x) <=> x = sig
  BY DEF Gave
<1>2. QED
  BY <1>1 DEF GivesOneThatFires

(* What gave nothing gave nothing that fires. *)
LEMMA GaveNone ==
    ASSUME NEW entry, NEW flow, Converted(entry) = <<>>
    PROVE  ~GivesOneThatFires(entry, flow)
BY DEF GivesOneThatFires, Gave

(* Lower case is lower case already. *)
LEMMA LowerTwice ==
    ASSUME NEW x \in Names \cup Hashes
    PROVE  Lower[Lower[x]] = Lower[x]
OBVIOUS

(* An entry of ThreatFox is about a flow if and only if what it becomes     *)
(* indicates the flow, IPv6 endpoints apart.                                *)
LEMMA ThreatFoxFires ==
    ASSUME NEW entry \in Entries, entry.feed = "threatfox", NEW flow \in Flows
    PROVE  GivesOneThatFires(entry, flow) <=> About(entry, flow) /\ ~IsIpv6Endpoint(entry)
<1>1. \/ entry.ioc_type = "ip:port" /\ entry.ioc \in Optional(Endpoints)
      \/ entry.ioc_type = "domain" /\ entry.ioc \in Optional(Names)
      \/ entry.ioc_type = "url" /\ entry.ioc \in Optional(Urls)
      \/ entry.ioc_type = "sha256_hash" /\ entry.ioc \in Optional(Hashes)
      \/ entry.ioc_type = "md5_hash" /\ entry.ioc \in Optional(Hashes)
  BY DEF Entries, ThreatFoxIoc
<1>2. Converted(entry) = FromThreatFox(entry) /\ entry.feed # "urlhaus"
  BY DEF Converted
<1>3. CASE entry.ioc = None
  BY <1>2, <1>3, GaveNone DEF FromThreatFox, About
<1>4. CASE entry.ioc_type = "ip:port" /\ entry.ioc \in Endpoints
  <2> DEFINE sig == Signature("ip", BeforeColon[entry.ioc])
             address == AddressOf[entry.ioc]
  <2>1. entry.ioc # None /\ sig \in Signatures /\ Converted(entry) = <<sig>>
    BY <1>2, <1>4 DEF Signatures, FromThreatFox
  <2>2. GivesOneThatFires(entry, flow) <=> Fires(sig, flow)
    BY <2>1, GaveOne
  <2>3. Fires(sig, flow) <=>
           ParseIp[BeforeColon[entry.ioc]] \in {flow.dst_ip, flow.src_ip}
    BY DEF Fires, Signature
  <2>4. ParseIp[BeforeColon[entry.ioc]] =
           IF Subnet24[address] = None THEN None ELSE address
    BY <1>4
  <2>5. flow.dst_ip # None /\ flow.src_ip # None
    BY DEF Flows
  <2>6. IsIpv6Endpoint(entry) <=> Subnet24[address] = None
    BY <1>4, <2>1 DEF IsIpv6Endpoint
  <2>7. About(entry, flow) <=> address \in {flow.dst_ip, flow.src_ip}
    BY <1>2, <1>4, <2>1 DEF About
  <2>8. QED
    BY <2>2, <2>3, <2>4, <2>5, <2>6, <2>7
<1>5. CASE entry.ioc_type = "domain" /\ entry.ioc \in Names
  <2> DEFINE sig == Signature("domain", Lower[entry.ioc])
  <2>1. entry.ioc # None /\ sig \in Signatures /\ Converted(entry) = <<sig>>
    BY <1>2, <1>5 DEF Signatures, FromThreatFox
  <2>2. GivesOneThatFires(entry, flow) <=> Fires(sig, flow)
    BY <2>1, GaveOne
  <2>3. Fires(sig, flow) <=> flow.hostname # None /\ Lower[entry.ioc] = Lower[flow.hostname]
    BY <1>5, LowerTwice DEF Fires, Signature
  <2>4. QED
    BY <1>2, <1>5, <2>1, <2>2, <2>3 DEF About, IsIpv6Endpoint
<1>6. CASE entry.ioc_type = "url" /\ entry.ioc \in Urls
  <2> DEFINE sig == Signature("url", entry.ioc)
  <2>1. entry.ioc # None /\ sig \in Signatures /\ Converted(entry) = <<sig>>
    BY <1>2, <1>6 DEF Signatures, FromThreatFox
  <2>2. GivesOneThatFires(entry, flow) <=> Fires(sig, flow)
    BY <2>1, GaveOne
  <2>3. Fires(sig, flow) <=>
           flow.url # None /\ NormalizeUrl[entry.ioc] = NormalizeUrl[flow.url]
    BY DEF Fires, Signature
  <2>4. QED
    BY <1>2, <1>6, <2>1, <2>2, <2>3 DEF About, IsIpv6Endpoint
<1>7. CASE entry.ioc_type = "sha256_hash" /\ entry.ioc \in Hashes
  <2> DEFINE sig == Signature("sha256", Lower[entry.ioc])
  <2>1. entry.ioc # None /\ sig \in Signatures /\ Converted(entry) = <<sig>>
    BY <1>2, <1>7 DEF Signatures, FromThreatFox
  <2>2. GivesOneThatFires(entry, flow) <=> Fires(sig, flow)
    BY <2>1, GaveOne
  <2>3. Fires(sig, flow) <=> Lower[entry.ioc] = flow.payload_sha256
    BY <1>7, LowerTwice DEF Fires, Signature
  <2>4. QED
    BY <1>2, <1>7, <2>1, <2>2, <2>3 DEF About, IsIpv6Endpoint
<1>8. CASE entry.ioc_type = "md5_hash"
  <2>1. Converted(entry) = <<>>
    BY <1>2, <1>8 DEF FromThreatFox
  <2>2. QED
    BY <1>2, <1>8, <2>1, GaveNone DEF About
<1>9. QED
  BY <1>1, <1>3, <1>4, <1>5, <1>6, <1>7, <1>8 DEF Optional

(* The same of an entry of URLhaus, which gives up to two signatures. *)
LEMMA UrlhausFires ==
    ASSUME NEW entry \in Entries, entry.feed = "urlhaus", NEW flow \in Flows
    PROVE  GivesOneThatFires(entry, flow) <=> About(entry, flow) /\ ~IsIpv6Endpoint(entry)
<1> DEFINE sig == Signature("url", entry.url)
           other == HostSignature(entry.host)
<1>1. entry.url \in Optional(Urls) /\ entry.host \in Optional(Hosts)
  BY DEF Entries, ThreatFoxIoc
<1>2. Converted(entry) = FromUrlhaus(entry) /\ ~IsIpv6Endpoint(entry)
  BY DEF Converted, IsIpv6Endpoint
<1>3. CASE entry.url = None
  <2>1. Converted(entry) = <<>>
    BY <1>2, <1>3 DEF FromUrlhaus
  <2>2. QED
    BY <1>3, <2>1, GaveNone DEF About
<1>4. ASSUME entry.url # None
      PROVE  /\ entry.url \in Urls /\ sig \in Signatures
             /\ Fires(sig, flow) <=>
                   flow.url # None /\ NormalizeUrl[entry.url] = NormalizeUrl[flow.url]
  BY <1>1, <1>4 DEF Optional, Signatures, Signature, Fires
<1>5. CASE entry.url # None /\ entry.host = None
  <2>1. Converted(entry) = <<sig>>
    BY <1>2, <1>5 DEF FromUrlhaus
  <2>2. entry.host \notin IpTexts /\ entry.host \notin Names
    BY <1>5
  <2>3. QED
    BY <1>2, <1>4, <1>5, <2>1, <2>2, GaveOne DEF About
<1>6. CASE entry.url # None /\ entry.host # None
  <2>1. entry.host \in Hosts
    BY <1>1, <1>6 DEF Optional
  <2>2. /\ other \in Signatures
        /\ Fires(other, flow) <=>
              \/ /\ entry.host \in IpTexts
                 /\ ParseIp[entry.host] \in {flow.dst_ip, flow.src_ip}
              \/ /\ entry.host \in Names /\ flow.hostname # None
                 /\ Lower[entry.host] = Lower[flow.hostname]
    <3>1. CASE entry.host \in IpTexts
      <4>1. other = Signature("ip", entry.host) /\ entry.host \notin Names
        BY <3>1 DEF HostSignature
      <4>2. QED
        BY <3>1, <4>1 DEF Signatures, Signature, Fires
    <3>2. CASE entry.host \notin IpTexts
      <4>1. other = Signature("domain", Lower[entry.host]) /\ entry.host \in Names
        BY <2>1, <3>2 DEF HostSignature, Hosts
      <4>2. Lower[entry.host] \in Names /\ Lower[Lower[entry.host]] = Lower[entry.host]
        BY <4>1, LowerTwice
      <4>3. QED
        BY <3>2, <4>1, <4>2 DEF Signatures, Signature, Fires
    <3>3. QED
      BY <3>1, <3>2
  <2>3. Converted(entry) = <<sig>> \o <<other>>
    BY <1>2, <1>6 DEF FromUrlhaus
  <2> HIDE DEF sig, other
  <2>4. \A x : Gave(entry, x) <=> x = sig \/ x = other
    <3>1. /\ Len(Converted(entry)) = 2 /\ Converted(entry)[1] = sig
          /\ Converted(entry)[2] = other
      BY <2>3
    <3>2. 1 .. 2 = {1, 2}
      OBVIOUS
    <3>3. QED
      BY <3>1, <3>2 DEF Gave
  <2>5. GivesOneThatFires(entry, flow) <=> Fires(sig, flow) \/ Fires(other, flow)
    BY <1>4, <1>6, <2>2, <2>4 DEF GivesOneThatFires
  <2>6. QED
    BY <1>2, <1>4, <1>6, <2>2, <2>5 DEF About
<1>7. QED
  BY <1>3, <1>5, <1>6

(* The same of any entry. *)
LEMMA EntryFires ==
    ASSUME NEW entry \in Entries, NEW flow \in Flows
    PROVE  GivesOneThatFires(entry, flow) <=> About(entry, flow) /\ ~IsIpv6Endpoint(entry)
<1>1. entry.feed = "threatfox" \/ entry.feed = "urlhaus"
  BY DEF Entries, ThreatFoxIoc
<1>2. QED
  BY <1>1, ThreatFoxFires, UrlhausFires

(***************************************************************************)
(* What the feeds report is found, and nothing else if a feed gave         *)
(* something: through conversion, maps and lookup, for any entries.        *)
(***************************************************************************)
THEOREM FeedsFire == Spec => []FeedIndicatorsFire
<1>1. IInv => FeedIndicatorsFire
  <2> SUFFICES ASSUME IInv, phase \in {"tally", "done"}, NEW k \in DOMAIN flows
               PROVE
        LET about == {e \in {entries[i] : i \in DOMAIN entries} :
                         About(e, flows[k]) /\ ~IsIpv6Endpoint(e)}
            fed   == \E i \in DOMAIN entries : Converted(entries[i]) # <<>>
        IN  /\ about # {} => detections[k].verdict = "Malicious"
            /\ fed /\ detections[k].verdict = "Malicious" => about # {}
    BY DEF FeedIndicatorsFire
  <2> DEFINE flow == flows[k]
  <2>1. /\ Types /\ FromFeeds /\ Heard = Len(entries) /\ flow \in Flows
        /\ DOMAIN entries = 1 .. Len(entries)
        /\ \A e \in 1 .. Len(entries) : entries[e] \in Entries
        /\ \A i \in 1 .. Len(signatures) : signatures[i] \in Signatures
    BY DEF IInv, Types, Heard
  <2>2. detections[k].verdict = "Malicious" <=>
           \E i \in 1 .. Len(signatures) : Fires(signatures[i], flow)
    <3>1. k \in 1 .. Len(detections)
      BY DEF IInv, Types, Places
    <3>2. detections[k].verdict = "Malicious" <=> Indicated(flow)
      BY <3>1 DEF IInv, Judged, VerdictRight
    <3>3. QED
      BY <2>1, <3>2, IndicatedIsFires
  <2> HIDE DEF flow
  <2>3. ASSUME NEW e \in 1 .. Len(entries), About(entries[e], flow),
               ~IsIpv6Endpoint(entries[e])
        PROVE  detections[k].verdict = "Malicious"
    <3>1. PICK sig \in Signatures : Gave(entries[e], sig) /\ Fires(sig, flow)
      BY <2>1, <2>3, EntryFires DEF GivesOneThatFires
    <3>2. PICK i \in 1 .. Len(signatures) : signatures[i] = sig
      BY <2>1, <3>1 DEF FromFeeds
    <3>3. QED
      BY <2>2, <3>1, <3>2
  <2>4. ASSUME NEW j \in 1 .. Len(entries), Converted(entries[j]) # <<>>,
               detections[k].verdict = "Malicious"
        PROVE  \E e \in 1 .. Len(entries) :
                  About(entries[e], flow) /\ ~IsIpv6Endpoint(entries[e])
    <3>1. PICK i \in 1 .. Len(signatures) : Fires(signatures[i], flow)
      BY <2>2, <2>4
    <3>2. PICK e \in 1 .. Len(entries) : Gave(entries[e], signatures[i])
      BY <2>1, <2>4 DEF FromFeeds
    <3>3. GivesOneThatFires(entries[e], flow)
      BY <2>1, <3>1, <3>2 DEF GivesOneThatFires
    <3>4. QED
      BY <2>1, <3>3, EntryFires
  <2>5. QED
    BY <2>1, <2>3, <2>4 DEF flow
<1>2. QED
  BY <1>1, InvariantHolds, PTL

=============================================================================
