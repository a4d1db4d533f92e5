SPECIFICATION BothSpec
CONSTANTS
    Lines <- MCLines
    MaxLines = 6
    Plans <- MCPlans
    Options <- MCOptions
    Filament <- MCFilament
    FilamentArea = 2
    HasStartMacro = FALSE
    PollPeriod = 4
    Flows <- MCFlows
    Durations = {2}
    MaxDump = 6
    BucketWidth = 5
    Moves <- MCMoves
    MaxMoves = 3
    Timelines <- AllTimelines
    LayerLists <- AllLayers
    Extruders <- AllExtruders
    Filaments <- AllFilaments
CONSTRAINT OneFamily
CHECK_DEADLOCK FALSE
INVARIANTS
    MeasuresTheBody
    LayersMarkTheBody
    AcceptedIsPrintable
    CoordinatesAgree
    LayersReachedInPlace
    PipelineTypeOK
    ParsesPairs
    PathsPartAtZero
    NothingLost
    BucketsOnGrid
    AveragesAccountForFilament
    TimelineSorted
    CurveInBand
    SlewRespected
    CoolsTheLayerItIsIn
    LayerTimesAddUp
    BudgetRecoversFlow
