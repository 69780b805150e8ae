SPECIFICATION FairSpec
CONSTANTS
    Subscribers = {s1, s2}
    QueueSize = 1
    BacklogLimit = 1
    Incarnations = 1
    MaxLines = 2
    MaxStats = 1
    Outcomes = {"success", "failed", "fault"}
INVARIANTS
    TypeOK
    GapsOnlyFromOverflow
PROPERTIES
    StreamAsPromised
    ListenersEnd
CHECK_DEADLOCK FALSE
