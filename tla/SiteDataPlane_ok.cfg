\* No fault; the process may crash once and is restarted.
CONSTANTS
    p1 = p1
    p2 = p2
    g1 = g1
    g2 = g2
    Peers <- MCPeers
    Globals <- MCGlobals
    Provisioned <- MCChanging
    Faults = {}
    VppChoices = {TRUE, FALSE}
    EagerSubscribe = {TRUE, FALSE}
    MaxSas = 2
    MaxEvents = 2
    MaxRestarts = 1
    FaultyLives = 0
    CheckedFrom = 0
SPECIFICATION FairSpec
INVARIANT TypeOK
PROPERTY ImplementsAdvertisement
PROPERTY LiveTunnelsForward
PROPERTY DeadTunnelsWithdrawn
