SPECIFICATION MCSpec
CONSTANTS
    Prints <- MCPrints
    Scale = 10
    BodyLines <- MCBodyLines
    MaxBody = 4
    Chords = 2
    Limits <- MCLimits
    Runs = {r1, r2}
    PipeCap = 1
    Outputs <- MCOutputs
CHECK_DEADLOCK FALSE
INVARIANTS
    MotionTypeOK
    VelocityIsContinuous
    ChangeIsReachable
    PlanIsFastest
    CountersAgree
    ReturnsWholeOutput
PROPERTY
    EveryRunReturns
