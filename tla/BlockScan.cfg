CONSTANTS
    Databases <- MixedDbs
    Ekey <- SharedKeys
    NoKey = NoKey
    Capacity = 2
    MaxOffset = 3
    MaxScans = 2
SPECIFICATION Spec
INVARIANTS
    OrderedReports
    SingleMatch
    NothingLost
    TerminatedIffStopped
    OwnUntilStopped
PROPERTIES
    ScratchComesBack
CHECK_DEADLOCK FALSE
