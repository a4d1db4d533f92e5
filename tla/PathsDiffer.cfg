SPECIFICATION MCSpec
CONSTANTS
    Flows <- MCFlows
    Durations = {2}
    MaxDump = 6
    BucketWidth = 5
    Moves <- MCMoves
    MaxMoves = 3
    Timelines <- AllTimelines
    LayerLists <- AllLayers
    Extruders <- AllExtruders
    Filaments <- AllFilaments
CHECK_DEADLOCK FALSE
INVARIANTS
    PathsAgree
