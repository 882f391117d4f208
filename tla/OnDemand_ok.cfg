\* One failure, restart or membership change; every node prefers the owner.
CONSTANTS
    NoRing = NoRing
    p1 = p1
    HashSpace = 16
    Hash <- MCHash
    Nodes <- MCNodes
    Peers <- MCPeers
    Ttl = 3
    InitiateBound = 1
    Modes = {"jhash"}
    LookupBound = 1
    MaxQueue = 1
    MaxBreaks = 1
SPECIFICATION FairSpec
CHECK_DEADLOCK FALSE
INVARIANT OnDemandTypeOK
INVARIANT OneInitiatePerNode
PROPERTY OnlyOwnersInitiate
PROPERTY BackendBringsUp
