---------------------------- MODULE FeedConversion ----------------------------
(***************************************************************************)
(* From the entries of a feed's answer to signatures: convert              *)
(* (signatures/threatfox.rs) and the loop of fetch_recent                  *)
(* (signatures/urlhaus.rs).                                                *)
(*                                                                         *)
(* Texts are values without structure; what the code does to them is given *)
(* by the constant functions.                                              *)
(***************************************************************************)
EXTENDS Sequences

CONSTANTS
    Ips,          \* IP addresses
    IpTexts,      \* what stands in the value of an IP indicator
    Endpoints,    \* addresses with ports, as ThreatFox writes them
    Names,        \* host names and domain indicators, as they are written
    Urls,         \* URLs, as they are written
    Hashes,       \* SHA-256 digests, as they are written
    None,         \* Option::None; also what does not parse
    ParseIp,      \* str::parse::<IpAddr>: None when it is no address
    BeforeColon,  \* split(':').next(): what stands before the first colon
    Lower         \* str::to_lowercase, on names and digests

Optional(S) == S \cup {None}

ASSUME TextAssumption ==
    /\ None \notin Ips \cup IpTexts \cup Endpoints \cup Names \cup Urls \cup Hashes
    /\ ParseIp \in [IpTexts -> Optional(Ips)]
    /\ BeforeColon \in [Endpoints -> IpTexts]
    /\ Endpoints \subseteq IpTexts
    /\ IpTexts \cap Names = {}
    /\ \A x \in Names : Lower[x] \in Names
    /\ \A x \in Hashes : Lower[x] \in Hashes
    /\ \A x \in Names \cup Hashes : Lower[Lower[x]] = Lower[x]

Signature(type, text) == [ioc_type |-> type, value |-> text]

Signatures ==
    {Signature("ip", t) : t \in IpTexts} \cup
    {Signature("domain", n) : n \in Names} \cup
    {Signature("url", u) : u \in Urls} \cup
    {Signature("sha256", h) : h \in Hashes}

ThreatFoxIoc(type, Texts) ==
    [feed : {"threatfox"}, ioc_type : {type}, ioc : Optional(Texts)]

\* An address, or a name.
Hosts == {t \in IpTexts : ParseIp[t] # None} \cup Names

\* The entries, without the fields that only describe them.
Entries ==
    ThreatFoxIoc("ip:port", Endpoints) \cup ThreatFoxIoc("domain", Names) \cup
    ThreatFoxIoc("url", Urls) \cup ThreatFoxIoc("sha256_hash", Hashes) \cup
    ThreatFoxIoc("md5_hash", Hashes) \cup
    [feed : {"urlhaus"}, url : Optional(Urls), host : Optional(Hosts)]

\* Mutant: the port is not cut off.
FromThreatFoxWithPort(entry) ==
    IF entry.ioc = None THEN <<>>
    ELSE CASE entry.ioc_type = "ip:port" -> <<Signature("ip", entry.ioc)>>
           [] entry.ioc_type = "domain" -> <<Signature("domain", Lower[entry.ioc])>>
           [] entry.ioc_type = "url" -> <<Signature("url", entry.ioc)>>
           [] entry.ioc_type = "sha256_hash" ->
                 <<Signature("sha256", Lower[entry.ioc])>>
           [] OTHER -> <<>>

\* convert: other digests than SHA-256 are skipped.
FromThreatFox(entry) ==
    IF entry.ioc = None THEN <<>>
    ELSE CASE entry.ioc_type = "ip:port" ->
                 <<Signature("ip", BeforeColon[entry.ioc])>>
           [] entry.ioc_type = "domain" -> <<Signature("domain", Lower[entry.ioc])>>
           [] entry.ioc_type = "url" -> <<Signature("url", entry.ioc)>>
           [] entry.ioc_type = "sha256_hash" ->
                 <<Signature("sha256", Lower[entry.ioc])>>
           [] OTHER -> <<>>

\* Of IpTexts, the host of an entry (Hosts) is always one that parses.
HostSignature(host) ==
    IF host \in IpTexts THEN Signature("ip", host)
                        ELSE Signature("domain", Lower[host])

\* One turn of the loop; the host of an entry without a URL is lost.
FromUrlhaus(entry) ==
    IF entry.url = None THEN <<>>
    ELSE <<Signature("url", entry.url)>> \o
         IF entry.host = None THEN <<>> ELSE <<HostSignature(entry.host)>>

Converted(entry) ==
    IF entry.feed = "threatfox" THEN FromThreatFox(entry) ELSE FromUrlhaus(entry)

=============================================================================
