SPECIFICATION RunnerSpec
CONSTANTS
    Runs = {r1, r2}
    PipeCap = 1
    Outputs <- OneChunk
CHECK_DEADLOCK FALSE
PROPERTY
    TimeoutEndsRun
