CONSTANTS
    open = open
    delete = delete
    fresh = fresh
    c1 = c1
    NoConn = NoConn
    Factories = {open, delete}
    Connections = {c1}
    NewConn <- MCNewConn
    MaxCalls = 2
SPECIFICATION FairVersionSpec
CHECK_DEADLOCK FALSE
PROPERTIES RetirementCompletes UpgradeProceeds
INVARIANTS AcknowledgementsExact NoSpuriousBlocked
