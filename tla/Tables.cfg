SPECIFICATION Spec
CONSTANTS
    Symbols <- MCSymbols
    MaxLen = 4
    Bins = 12
    MaxFlat = 3
    Passes = 10
    Gamma = 3
    FewSymbols = 5
    MoreSymbols = 7
    MinGroups = 2
    FreqMax = 24
    Jobs <- MCJobs
    Lengths <- MCLengths
INVARIANTS
    SameTables
    VerdictRight
    TwoQueues
    BinsSuffice
    LimiterSound
    CheapestShape
PROPERTIES
    LengthsKeepSound
    Terminates
