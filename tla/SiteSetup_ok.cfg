\* Every fault, at most two failures together.
CONSTANTS
    p1 = p1
    p2 = p2
    d1 = d1
    d2 = d2
    NoSite = NoSite
    Sites = {p1, p2}
    Devices = {d1, d2}
    DevicesOf <- MCDevicesOf
    ModesOf <- MCModesOf
    Roles <- MCRoles
    Splits = TRUE
    Faults <- AllFaults
    MaxFailures = 2
SPECIFICATION Spec
INVARIANT SetupTypeOK
INVARIANT InstalledDevicesForward
INVARIANT NothingLeft
INVARIANT SplitsFirst
