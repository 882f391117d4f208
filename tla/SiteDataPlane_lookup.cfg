\* A read of the NAT record fails on an UP.
CONSTANTS
    p1 = p1
    p2 = p2
    g1 = g1
    g2 = g2
    Peers <- MCPeers
    Globals <- MCGlobals
    Provisioned <- MCAlways
    Faults = {"lookup"}
    VppChoices = {FALSE}
    EagerSubscribe = {TRUE, FALSE}
    MaxSas = 2
    MaxEvents = 2
    MaxRestarts = 0
    FaultyLives = 1
    CheckedFrom = 0
SPECIFICATION Spec
PROPERTY NoPrematureWithdrawal
