\* Three distributions and references, every failure.
SPECIFICATION Spec
CONSTANTS
    e1 = e1
    e2 = e2
    e3 = e3
    r1 = r1
    r2 = r2
    r3 = r3
    Ids = {e1, e2, e3}
    Callers = {r1, r2, r3}
    None = None
    MaxStops = 2
    Events = {"crash", "persist"}
INVARIANTS
    TypeOK
    CallersExact
    RestartInvisible
