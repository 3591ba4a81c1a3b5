SPECIFICATION Spec
CONSTANTS
    s1 = s1
    s2 = s2
    c1 = c1
    c2 = c2
    NoCollector = NoCollector
    Scratch = {s1, s2}
    Collector = {c1, c2}
    Key <- Offsets
    Frag <- Fragments
    StableKey <- Hashes
    BatchSize = 2
    Max = 2
    RateScale = 2
    Params <- Thresholds
    MaxTriggers = 3
SYMMETRY Symmetric
INVARIANTS
    CountsExact
    CommittedAtReturn
    FeedbackJustified
    FeedbackKeepsWorst
