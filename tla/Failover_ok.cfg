\* Every fault, and three crashes, interface failures or partitions.
CONSTANTS
    Nobody = Nobody
    l1 = l1
    l2 = l2
    Lvms <- MCLvms
    Preferred = l1
    Faults = {"aws", "slow", "split"}
    MaxMoves = 3
SPECIFICATION FairSpec
CHECK_DEADLOCK FALSE
INVARIANT FailoverTypeOK
INVARIANT MasterCarriesTraffic
INVARIANT OneWriter
PROPERTY FailoverCompletes
