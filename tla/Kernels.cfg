SPECIFICATION KernelsSpec
CONSTANTS
    Engines <- MCEngines
    Depths <- MCDepths
    Sizes <- MCSizes
    GroupLanes = 2
    VerticalEngines <- MCVerticalEngines
    VerticalSizes = {9, 21, 64, 69, 101}
    Half = 2
    WideGroups = 2
    SetGroups = 2
    ByteMod = 16
    RankMod = 8
    Sides <- MCSides
    Bitmaps <- MCBitmaps
    Bins = 2
    Morsels = 2
    LoadLanes = 1
    Burst = 7
    CtrMod = 8
    WideMod = 128
    BufSize = 80
    MaxChunk = 136
    Inputs <- MCInputs
    Offsets = {0, 1, 3, 7}
INVARIANTS
    MergeSound
    SplitSound
    HistogramSound
    FlatSound
    VerticalSound
