SPECIFICATION ServerSpec
CONSTANTS
    NumberOf <- MCNumberOf
    NotANumber = NotANumber
    Requests <- MCRequests
    Configs <- MCConfigs
    first = first
    second = second
    Connections = {first, second}
    MaxBody = 10
    BufferSize = 3
CHECK_DEADLOCK FALSE
INVARIANTS
    RequestIsWhole
    LimitsGoWhereTheyBelong
PROPERTIES
    EveryRequestIsAnswered
    QuietConnectionsEnd
