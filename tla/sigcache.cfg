SPECIFICATION Spec

CONSTANTS
    f1 = f1
    f2 = f2
    server = server
    cli = cli
    Requests = {f1, f2}
    Processes = {server, cli}
    ProcessOf <- MCProcessOf
    Asked = {"threatfox"}
    Keyed = {server}
    Ttl = 1
    MaxTtl = 2
    MaxTime = 2
    Faults = {"feed", "sample", "disk", "cancel", "crash", "clock"}
    Absent = Absent
    Empty = Empty
    Torn = Torn
    NoSet = NoSet

INVARIANT
    TypeOK

PROPERTY
    FreshSaveIsReused
    MemoryHoldsWhatIsCached
