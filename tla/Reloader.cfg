\* Two distributions, three mutations, every failure, and two stops.
SPECIFICATION FairSpec
CONSTANTS
    e1 = e1
    e2 = e2
    Dists = {e1, e2}
    NoDist = NoDist
    FileDist = FileDist
    MaxMutations = 3
    MaxStops = 2
    Events = {"reject", "write", "boot", "signal", "crash"}
\* Without requests the control plane rests.
CHECK_DEADLOCK FALSE
INVARIANTS
    TypeOK
    NoLostUpdate
PROPERTIES
    Converges
    Publishes
    NeverGoesBack
