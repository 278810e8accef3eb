SPECIFICATION FairSpec

CONSTANTS
    f1 = f1
    f2 = f2
    server = server
    cli = cli
    Requests = {f1, f2}
    Processes = {server, cli}
    ProcessOf <- MCProcessOf
    Asked = {"all", "threatfox", "offline"}
    Keyed = {server}
    Ttl = 0
    MaxTtl = 2
    MaxTime = 0
    Faults = {"feed", "cancel"}
    Absent = Absent
    Empty = Empty
    Torn = Torn
    NoSet = NoSet

INVARIANTS
    ProvenanceHonest
    ForcedFetchHonoursSource

PROPERTY
    FetchesEnd
