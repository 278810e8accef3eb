SPECIFICATION FairSpec

CONSTANTS
    Requests = {r1, r2, r3}
    NoOne = NoOne
    Captures = {pcapA}
    FlowLists = {flowsA}
    NoFlows = NoFlows
    SignatureSets = {sigsA}
    None = None

PROPERTY
    RequestsFinish
