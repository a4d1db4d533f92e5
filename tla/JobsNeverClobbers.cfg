SPECIFICATION MCJobsSpec
CONSTANTS
    CliJobs = {c1}
    WebJobs = {w1, w2}
    Limit = 4
CHECK_DEADLOCK FALSE
PROPERTY
    NeverClobbers
