SPECIFICATION Spec

CONSTANTS
    plain = plain
    bundled = bundled
    dotted = dotted
    short = short
    long = long
    Names = {plain, bundled, dotted}
    Dotted = {dotted}
    Samples = {bundled}
    Captures = {short, long}
    Size <- MCSize
    SampleOf <- MCSampleOf
    Savers = {u1, u2}
    Readers = {r1}
    MaxFiles = 2
    NoFile = NoFile

INVARIANTS
    TypeOK
    UploadIsIngested
    UploadReplacesFile
    ListedIsIngestible

PROPERTIES
    RequestsEnd
