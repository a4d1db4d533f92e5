SPECIFICATION ComparedSpec
CONSTANTS
    Lines <- FasterTravelLines
    Scans <- LongBody
    Plans <- MCPlans
    Options <- CapOptions
    Filament <- MCFilament
    FilamentArea = 2
    HasStartMacro = TRUE
    Samples = 5
    PollPeriod = 16384
CHECK_DEADLOCK FALSE
PROPERTY
    CapHolds
