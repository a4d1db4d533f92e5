SPECIFICATION BothSpec
CONSTANTS
    Lines <- MCLines
    Scans <- MCScans
    Plans <- AllPlans
    Options <- MCOptions
    Filament <- MCFilament
    FilamentArea = 2
    HasStartMacro = TRUE
    Samples = 5
    PollPeriod = 4
    BackslashTails <- MCBackslashTails
    Opening = {"open{"}
    Closing = {"close}"}
    Digits = 2
    Printers <- MCPrinters
    Memories <- MCMemories
    Block = 28
CHECK_DEADLOCK FALSE
INVARIANTS
    NeverFaster
    SamePath
    CurveReadsBack
    OnlyTheShapeCounts
    SavedIsReadBack
PROPERTIES
    CommandsFollowPlan
    CapHoldsWhenTracked
    KeepsOneSave
