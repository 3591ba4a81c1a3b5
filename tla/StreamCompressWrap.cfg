SPECIFICATION ObjectsSpec
CONSTANTS
    Var = {"u", "v"}
    Block = {b1, b2, b3}
    Database <- MCDatabase
    Dim <- MCDim
    Need <- MCNeed
    LogSize <- MCLogSize
    BlockMode = {"p"}
    Null = Null
    MaxNest = 2
    Streams = {s1, s2}
    Leaf = {"q"}
    Left = {"r"}
    SomSlot = {"x"}
    Source = {src1, src2}
    Garbage <- MCGarbage
    HistoryRequired = 2
    AnchoredDistance = 2
    U32 = 3
    MaxOffset = 3
    MaxWrites = 3
    Patterns = {0, 1, 2}
    Databases <- MCDatabases
    Data <- MCData
    None = None
    BlockLength = 3
    MaxErrors = 1
INVARIANT ExpandedAsCopied
