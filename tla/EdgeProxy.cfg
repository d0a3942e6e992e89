\* Two requests, a change of the distribution, every failure.
SPECIFICATION Spec
CONSTANTS
    r1 = r1
    r2 = r2
    Requests = {r1, r2}
    Configs <- SomeConfigs
    EnvEntries <- SomeEntries
    FunctionName <- SomeNames
    Hooks = {"viewer-request"}
    None = None
    TTL = 1
    Patience = 1
    MaxTime = 3
    MaxChanges = 1
    Events = {"lookup", "rie", "hangup", "restart"}
    RequestSnapshots <- SomeRequestSnapshots
    ResponseSnapshots <- SomeResponseSnapshots
    Returns <- SomeReturns
INVARIANTS
    BoundRecently
    InvokedWasBound
    EchoIsTransparent
PROPERTIES
    Answered
