CONSTANTS
    Databases <- LilyAndPlainDbs
    Ekey <- NoKeys
    NoKey = NoKey
    Capacity = 2
    MaxOffset = 2
    MaxScans = 2
SPECIFICATION Spec
INVARIANT ServesEveryDatabase
CHECK_DEADLOCK FALSE
