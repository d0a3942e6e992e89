\* Two records, two concurrent requests, two directories, every fault.
SPECIFICATION Spec
CONSTANTS
    i1 = i1
    i2 = i2
    d1 = d1
    d2 = d2
    c1 = c1
    c2 = c2
    Ids = {i1, i2}
    NoId = NoId
    Clients = {c1, c2}
    Files <- TwoFiles
    Dirs = {d1, d2}
    DirOf <- TwoDirs
    Batches <- NarrowAndWide
    QueueSize = 1
    MaxStops = 2
    Events = {"signal", "crash", "persist", "walk", "remove"}
    Escapes <- SomeEscapes
    Bytes <- SomeBytes
    Malformed = {"%z"}
    NonASCII = {"u-umlaut"}
    Unsafe = {" "}
    Requests <- SomeRequests
    Paths <- SomePaths
    None = None
INVARIANTS
    TypeOK
    WriteThrough
    ReadsAreDurable
    Ownership
    CleanWalkPurges
    
PROPERTIES
    ReadsNeverGoBack
    PurgesOnlyForInProgress
SYMMETRY Symmetry
