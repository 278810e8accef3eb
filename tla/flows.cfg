SPECIFICATION Spec

CONSTANTS
    None = None
    EmptyName = EmptyName
    Ips <- MCIps
    Rank <- MCRank
    Ports <- MCPorts
    Others <- MCOthers
    Names <- MCNames
    Urls <- MCUrls
    Payloads <- MCPayloads
    Digests <- MCDigests
    Captures <- MCCaptures
    DnsQueryName <- MCDnsQueryName
    DnsAnswers <- MCDnsAnswers
    Sni <- MCSni
    HttpHost <- MCHttpHost
    HttpUrl <- MCHttpUrl
    Sha256 <- MCSha256

INVARIANTS
    TypeOK
    FlowsAreConnections
    FirstTellingPacketWins

\* An ingest ends.
CHECK_DEADLOCK FALSE
