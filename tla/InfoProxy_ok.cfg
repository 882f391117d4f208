\* Every order of reads, writes, lost connections and outages.
CONSTANTS
    Unset = Unset
    NoPart = NoPart
    NoLine = NoLine
    d1 = d1
    m1 = m1
    PortSpace = 4
    LabelEnds <- MCEnds
    Devices = {d1}
    Models = {m1}
    Rules <- MCRules
    Contents <- MCContents
    CommandLines <- MCCommands
    Lines <- MCLines
    MaxWrites = 1
SPECIFICATION FairSpec
CHECK_DEADLOCK FALSE
INVARIANT InfoTypeOK
PROPERTY VerdictOfOneInstant
PROPERTY OneHiccupAbsorbed
PROPERTY EveryLineAnswered
