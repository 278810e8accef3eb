SPECIFICATION Spec

CONSTANTS
    Pages = {index, ingest}
    Capacity = 3
    WireCapacity = 1
    ConsoleRows = 2
    MaxEvents = 5

INVARIANTS
    TypeOK
    RecentEventsReachThePage

PROPERTIES
    LiveLogKept
    CatchesUp
