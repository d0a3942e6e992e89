\* Every directory at every start, and every API request.
SPECIFICATION Spec
CONSTANTS
    WordChars <- Chars
    None = None
    Directories <- SomeDirectories
    CachePolicies <- SomeCachePolicies
    OriginRequestPolicies <- SomeORPs
    HeadersPolicies <- SomeHeadersPolicies
    Distributions <- SomeDistributions
    PolicyIDs <- SomePolicyIDs
    HeadersPolicyIDs <- SomeHeadersPolicyIDs
    URIs <- SomeURIs
    DistributionID <- SomeDistributionID
INVARIANTS
    ServedFromOwnOrigin
    LoadedRenders
    FirstMatchServes
    NoDanglingTarget
    NoAcceptedHeaderDropped
    NoHeaderLost
