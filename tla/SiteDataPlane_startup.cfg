\* Charon moves between the registration and the SA listing.
CONSTANTS
    p1 = p1
    p2 = p2
    g1 = g1
    g2 = g2
    Peers <- MCPeers
    Globals <- MCGlobals
    Provisioned <- MCAlways
    Faults = {"startup"}
    VppChoices = {TRUE, FALSE}
    EagerSubscribe = {TRUE}
    MaxSas = 2
    MaxEvents = 2
    MaxRestarts = 0
    FaultyLives = 1
    CheckedFrom = 0
SPECIFICATION Spec
INVARIANT RefcountsMatchCharon
