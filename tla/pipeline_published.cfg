SPECIFICATION Spec

CONSTANTS
    Requests = {r1, r2}
    NoOne = NoOne
    Captures = {pcapA}
    FlowLists = {flowsA, flowsB}
    NoFlows = NoFlows
    SignatureSets = {sigsA, sigsB}
    None = None

SYMMETRY Symmetry

PROPERTY
    PublishedAgainstCurrentSet
