SPECIFICATION Spec

CONSTANTS
    f1 = f1
    f2 = f2
    server = server
    cli = cli
    Requests = {f1}
    Processes = {server}
    ProcessOf <- MCProcessOf
    Asked = {"all"}
    Keyed = {server}
    Ttl = 3
    MaxTtl = 2
    MaxTime = 2
    Faults = {}
    Absent = Absent
    Empty = Empty
    Torn = Torn
    NoSet = NoSet

PROPERTY
    FreshSaveIsReused
