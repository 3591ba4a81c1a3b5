SPECIFICATION Spec
CONSTANTS
    SlotCount = 4
    Lit <- MCLit
    Anch <- MCAnch
    Delay <- MCDelay
    LitLen <- MCLitLen
    FloatMin = 2
    AnchoredDistance = 4
    HistoryRequired = 3
    MaxDelayedMatch = 6
    Inf = Inf
    MaxOffset = 7
    MaxHits = 4
INVARIANTS ReplayInOrder ReplayExact LastByteExact
CHECK_DEADLOCK FALSE
