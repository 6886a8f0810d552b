SPECIFICATION Spec
CONSTANTS
    Symbols <- MCSymbols
    MaxLen = 4
    Bins = 12
    MaxFlat = 3
    Passes = 10
    Gamma = 3
    FewSymbols = 5
    MoreSymbols = 7
    MinGroups = 2
    FreqMax = 24
    Jobs <- PlainJobs
    Lengths <- MCLengths
INVARIANT RareIsLonger
