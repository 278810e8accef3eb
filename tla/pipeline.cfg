SPECIFICATION Spec

CONSTANTS
    Requests = {r1, r2, r3}
    NoOne = NoOne
    Captures = {pcapA}
    FlowLists = {flowsA, flowsB}
    NoFlows = NoFlows
    SignatureSets = {sigsA, sigsB}
    None = None

SYMMETRY Symmetry

INVARIANTS
    TypeOK
    LockDiscipline
    ReportIsOneMoment
    DetectionsFromOneMoment

PROPERTIES
    OnlyOvertakenRunsMislabel
    ImplementsDetectionStore
