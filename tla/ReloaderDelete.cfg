\* Nothing fails and nothing stops.
SPECIFICATION FairSpec
CONSTANTS
    e1 = e1
    e2 = e2
    Dists = {e1}
    NoDist = NoDist
    FileDist = FileDist
    MaxMutations = 2
    MaxStops = 0
    Events = {}
\* Without requests the control plane rests.
CHECK_DEADLOCK FALSE
PROPERTIES
    DeletesSurface
