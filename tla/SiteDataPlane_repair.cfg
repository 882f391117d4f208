\* Every fault before the crash, none after it.
CONSTANTS
    p1 = p1
    p2 = p2
    g1 = g1
    g2 = g2
    Peers <- MCPeers
    Globals <- MCGlobals
    Provisioned <- MCAlways
    Faults = {"lookup", "record", "route", "active", "setup", "list", "startup"}
    VppChoices = {TRUE, FALSE}
    EagerSubscribe = {TRUE}
    MaxSas = 2
    MaxEvents = 1
    MaxRestarts = 1
    FaultyLives = 1
    CheckedFrom = 1
SPECIFICATION Spec
INVARIANT RefcountsMatchCharon
INVARIANT RoutesMatchTunnels
INVARIANT NothingLeftBehind
INVARIANT IdsExclusive
INVARIANT ActiveMatchesCache
PROPERTY NoPrematureWithdrawal
