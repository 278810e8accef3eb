SPECIFICATION Spec

CONSTANTS
    None = None
    Ips <- MCIps
    Subnets <- MCSubnets
    Names <- MCNames
    Urls <- MCUrls
    Hashes <- MCHashes
    Ports <- MCPorts
    SUSPICIOUS_PORTS <- MCSuspiciousPorts
    IpTexts <- MCIpTexts
    Endpoints <- MCEndpoints
    ParseIp <- MCParseIp
    BeforeColon <- MCBeforeColon
    AddressOf <- MCAddressOf
    Subnet24 <- MCSubnet24
    Lower <- MCLower
    NormalizeUrl <- MCNormalizeUrl
    Entropic <- MCEntropic
    EntryLists <- MCEntryLists
    SignatureLists <- MCSignatureLists
    FlowLists <- MCFlowLists

INVARIANTS
    TypeOK
    VerdictsAreRight
    BestSignatureNamed
    SummaryReportAndLogAgree
    FeedIndicatorsFire

\* A run ends.
CHECK_DEADLOCK FALSE
