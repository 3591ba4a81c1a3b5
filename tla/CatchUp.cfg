SPECIFICATION EnginesSpec
CONSTANTS
    OutfixEnd = 2
    QueueCount = 4
    Dist <- MCDist
    Feeders = {{2}, {}}
    Single = {3}
    MaxItems = 4
    Length = 5
    MaxLits = 3
    MaxAccepts = 2
    WordBits = 3
    Inf = 9
    Repeats <- MCRepeats
    Modes <- MCModes
    MaxOffset = 4
    MaxEscapes = 1
    MaxQueue = 3
    MaxWrites = 3
    MaxLag = 1
INVARIANTS InOrder ReportedExact MpvFedInOrder LbrExact AnswerExact RangeFits
CHECK_DEADLOCK FALSE
