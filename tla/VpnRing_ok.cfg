\* Every command may fail, restarts and departures come at any time.
CONSTANTS
    NoSet = NoSet
    l1 = l1
    l2 = l2
    f1 = f1
    Lvms <- MCLvms
    Nodes <- MCNodes
    Flows <- MCFlows
    HashSpace = 16
    Hash <- MCHash
    Faults = {"reload", "publish", "flush", "blind"}
    MaxChanges = 2
    MaxFailures = 1
    MaxRestarts = 1
SPECIFICATION FairWatcherSpec
CHECK_DEADLOCK FALSE
INVARIANT RingTypeOK
INVARIANT OwnerMatchesMap
INVARIANT FlowsOnMembers
PROPERTY ScaleOutKeepsFlows
PROPERTY TablesConverge
PROPERTY RingConvergesOncePublished
