\* The cache directory cannot be read; nothing stops.
SPECIFICATION Spec
CONSTANTS
    i1 = i1
    i2 = i2
    d1 = d1
    d2 = d2
    c1 = c1
    c2 = c2
    Ids = {i1, i2}
    NoId = NoId
    Clients = {c1, c2}
    Files <- OneFile
    Dirs = {d1}
    DirOf <- OneDir
    Batches <- OneBatch
    QueueSize = 1
    MaxStops = 0
    Events = {"walk"}
    Escapes <- SomeEscapes
    Bytes <- SomeBytes
    Malformed = {"%z"}
    NonASCII = {"u-umlaut"}
    Unsafe = {" "}
    Requests <- SomeRequests
    Paths <- SomePaths
    None = None
INVARIANTS
    CompletedMeansGone
