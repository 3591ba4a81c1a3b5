CONSTANTS
    HAVE_NEON = TRUE
    Streams = {s1, s2}
    Databases <- BothDbs
    NoKey = NoKey
    Byte <- MCByte
    NfaState <- MCNfaState
    Start = "s0"
    Dead = "dead"
    Delta <- MCDelta
    Accept = {"acc"}
    AcceptEod = {"s1"}
    HistoryRequired = 2
    MaxData = 2
    MaxChunk = 2
    MaxBlocks = 4
    MaxVector = 4
SPECIFICATION MCSpec
INVARIANTS
    StreamedAsWhole
    EodExact
    ScanVerdict
    HistoryIsTail
PROPERTIES
    StoppedForGood
    CallReturns
