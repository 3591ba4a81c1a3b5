SPECIFICATION SomSpec
CONSTANTS
    Slot <- MCSlot
    Mode <- MCMode
    Parent <- MCParent
    NoParent = NoParent
    Sentinel = 2
    Past = 7
    MaxOffset = 3
    MaxEvents = 4
    Ext = {"e"}
    Som = {s, u}
    NoKey = NoKey
    Mod = 8
    Horizon = 2
    MaxDedupeOffset = 3
    MaxReports = 3
    MaxCalls = 2
INVARIANT LeftmostStart
SYMMETRY SomKeys
CHECK_DEADLOCK FALSE
