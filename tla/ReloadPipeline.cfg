\* Every fault of both containers.
SPECIFICATION PipelineSpec
CONSTANTS
    e1 = e1
    Dists = {e1}
    NoDist = NoDist
    FileDist = FileDist
    MaxMutations = 1
    MaxStops = 1
    Events = {"write", "boot", "signal", "crash"}
    Faults = {"inotify", "reload", "container"}
    MaxFaults = 2
\* Without requests everything rests.
CHECK_DEADLOCK FALSE
INVARIANTS
    NothingUnnoticed
PROPERTIES
    MutationsTakeEffect
