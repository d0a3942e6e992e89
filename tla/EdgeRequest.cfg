\* Requests one after another, with eviction and invalidation.
SPECIFICATION RequestSpec
CONSTANTS
    WordChars <- Chars
    None = None
    EdgeDistributions <- SomeDistributions
    PolicySets <- SomePolicySets
    EdgeID <- SomeID
    Functions <- SomeFunctions
    Clients <- SomeClients
    TestPolicies <- SomeTestPolicies
    Escapes <- SomeEscapes
    Reserved <- SomeReserved
    Parameters <- SomeParameters
    Replies <- SomeReplies
    MaxRedirects = 3
    MaxCached = 1
    Events = {"evict", "purge"}
INVARIANTS
    
    FailOpenTransparent
    ServedOwnVariant
    OriginLifetimes
    RewriteReachesOrigin
