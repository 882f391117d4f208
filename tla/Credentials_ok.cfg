\* Every fault until charon restarts, none after that.
CONSTANTS
    s1 = s1
    k1 = k1
    k2 = k2
    r1 = r1
    r2 = r2
    id1 = id1
    None = None
    Sites <- MCOneSite
    Psks <- MCPsks
    Recs <- MCRecs
    Identity <- MCIdentity
    Faults = {"valkey", "vici", "link", "blind"}
    MaxEvents = 3
    MaxWrites = 4
    MaxBreaks = 2
SPECIFICATION FairSpec
CHECK_DEADLOCK FALSE
INVARIANT CredTypeOK
INVARIANT SettledFollows
INVARIANT ConnAuthenticates
PROPERTY CharonFollowsValkey
