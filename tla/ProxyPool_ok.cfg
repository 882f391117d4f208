\* One master at a time; two commands may fail, at a restart or in service.
CONSTANTS
    l1 = l1
    l2 = l2
    n1 = n1
    x1 = x1
    x2 = x2
    d1 = d1
    NoSet = NoSet
    RealIp = RealIp
    NoBinding = NoBinding
    Lvms <- MCLvms
    Nodes <- MCNodes
    Proxies <- MCProxies
    Devices <- MCDevices
    Faults = {"imds", "set", "apply", "flush", "init", "vpp"}
    FirstHealthy <- MCFirstHealthy
    MaxHealth = 2
    MaxRoles = 5
    MaxFailures = 2
    MaxRestarts = 1
SPECIFICATION FairSpec
CHECK_DEADLOCK FALSE
INVARIANT PoolTypeOK
INVARIANT NoBindingToDeparted
PROPERTY ScaleOutKeepsSessions
PROPERTY PoolConverges
