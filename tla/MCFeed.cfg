SPECIFICATION FairSpec
CONSTANTS
    ann = ann
    bill = bill
    nobody = nobody
    hers = hers
    Users = {ann, bill}
    Nobody = nobody
    Clients = {hers}
    ViewerOf <- MCViewerOf
    FEHU_STREAM_REPLAY = 2
    CHANNEL = 2
    PAGE = 2
    Resumes = "at_message"
    Flows <- MCFlows
    MaxMessages = 5
    MaxFacts = 5
    MaxDrops = 2
    MaxCrashes = 1
    MaxRestarts = 1
INVARIANTS
    TypeOK
    StreamUnbroken
    NothingLostSilently
PROPERTIES
    FactsAreAcknowledged
CHECK_DEADLOCK FALSE
