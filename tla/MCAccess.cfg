SPECIFICATION FairSpec
CONSTANTS
    Flows <- MCFlows
    Requests = {1, 2, 3, 4}
    MAX_INFLIGHT = 2
    MAX_BUCKETS = 1
    MaxClock = 1
INVARIANTS
    TypeOK
    RevokedStaysOut
    LeastPrivilege
    KeysOpenWhatTheyName
    NoFreeRequests
PROPERTIES
    AnsweredInTheEnd
CHECK_DEADLOCK FALSE
