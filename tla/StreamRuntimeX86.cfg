CONSTANTS
    HAVE_NEON = FALSE
    Streams = {s1}
    Databases <- StreamDbs
    NoKey = NoKey
    Byte <- MCByte
    NfaState <- MCNfaState
    Start = "s0"
    Dead = "dead"
    Delta <- MCDelta
    Accept = {"acc"}
    AcceptEod = {"s1"}
    HistoryRequired = 2
    MaxData = 2
    MaxChunk = 2
    MaxBlocks = 0
    MaxVector = 0
SPECIFICATION MCSpec
INVARIANTS
    StreamedAsWhole
