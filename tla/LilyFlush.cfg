CONSTANTS
    Capacity = 3
    MaxOffset = 3
    PerLine = 2
SPECIFICATION Spec
INVARIANTS
    ReportsAscend
PROPERTIES
    ImplementsQueue
    FlushReturns
