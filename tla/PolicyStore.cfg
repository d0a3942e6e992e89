\* Three custom policies, one managed policy, four names, two crashes.
SPECIFICATION Spec
CONSTANTS
    p1 = p1
    p2 = p2
    p3 = p3
    m1 = m1
    n1 = n1
    n2 = n2
    n3 = n3
    nm = nm
    Ids = {p1, p2, p3}
    Managed = {m1}
    Names = {n1, n2, n3, nm}
    ManagedName <- OneManaged
    None = None
    MaxStops = 2
    Events = {"crash", "persist"}
INVARIANTS
    TypeOK
    NamesUnique
    RestartInvisible
    IndexExact
