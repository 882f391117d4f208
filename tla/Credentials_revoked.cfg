\* A key is deleted while the node is not subscribed.
CONSTANTS
    s1 = s1
    k1 = k1
    k2 = k2
    r1 = r1
    r2 = r2
    id1 = id1
    None = None
    Sites <- MCOneSite
    Psks <- MCPsks
    Recs <- MCRecs
    Identity <- MCIdentity
    Faults = {"blind"}
    MaxEvents = 1
    MaxWrites = 1
    MaxBreaks = 1
SPECIFICATION FairSpec
CHECK_DEADLOCK FALSE
PROPERTY RevokedCannotConnect
